---- MODULE Spec2Model ----
(***************************************************************************)
(* A model of the SQL layer of Akanoa/Sql-Layer: the Database core         *)
(* (create_table, add_index, insert, get_record_by_pk, get_table) running  *)
(* its transaction bodies against an ordered transactional key-value       *)
(* store with optimistic conflict detection and a retry driver.            *)
(***************************************************************************)
EXTENDS Integers, Sequences, FiniteSets, TLC

VARIABLES
    kv,       \* the committed key-value store: a function from keys to bytes
    pc,       \* per client: "idle", "commit" (body ran, commit pending), "retry"
    op,       \* per client: the public operation in progress
    tx,       \* per client: the transaction of the current attempt
    last,     \* the operation that returned most recently, and what it returned
    insLog,   \* per table name: the committed inserts, in commit order
    calls,    \* number of public operations invoked so far
    stream,   \* the range read of the storage facade in progress, if any
    eval      \* a conversion applied on its own: its input and what it produced

vars == <<kv, pc, op, tx, last, insLog, calls, stream, eval>>

(***************************************************************************)
(* Bounds of the model.                                                    *)
(***************************************************************************)
NumClients == 2
MaxCalls == 3
MaxRecordLen == 2

Clients == 1..NumClients

(***************************************************************************)
(* Option and Result values.                                               *)
(***************************************************************************)
None == <<>>
Some(v) == <<v>>
IsSome(o) == Len(o) = 1

Ok(v) == <<"Ok", v>>
Err(e) == <<"Err", e>>
IsOk(r) == r[1] = "Ok"
IsErr(r) == r[1] = "Err"
Unit == <<>>

Min(a, b) == IF a < b THEN a ELSE b

(***************************************************************************)
(* errors.rs                                                               *)
(***************************************************************************)
MissingColumn(field) == <<"MissingColumn", field>>
MismatchedColumnType(expected, found) == <<"MismatchedColumnType", expected, found>>
TableNotFound(name) == <<"TableNotFound", name>>

\* impl From<SqlLayerError> for FdbBindingError: the domain error is boxed
\* into the driver's custom-error variant.
CustomError(e) == <<"CustomError", e>>

\* #[from] FdbBindingError: what `.await?` at the end of a public operation
\* makes of the error the retry driver returned.
Fdb(e) == <<"Fdb", e>>

(***************************************************************************)
(* table.rs, index.rs, table_metadata.rs                                   *)
(***************************************************************************)
FieldType == {"String", "Int", "Float", "Bool", "Bytes"}

Field(name, type) == [name |-> name, type |-> type]
Index(name, fields) == [name |-> name, fields |-> fields]
Table(name, fields, primary_key, indexes) ==
    [name |-> name, fields |-> fields, primary_key |-> primary_key, indexes |-> indexes]

\* A variant of Table_add_index that puts the index in front.
Table_add_index_front(table, index) ==
    [table EXCEPT !.indexes = <<index>> \o @]

Table_add_index(table, index) ==
    [table EXCEPT !.indexes = Append(@, index)]

\* Position (1-based here, 0-based in the source) of the first field of that name.
get_field_pos(table, field_name) ==
    LET hits == {i \in 1..Len(table.fields) : table.fields[i].name = field_name}
    IN IF hits = {} THEN None
       ELSE Some(CHOOSE i \in hits : \A j \in hits : i <= j)

\* Table::to_bytes / from_bytes: the schema as a framed datum.
Table_to_bytes(table) ==
    <<"table", table.name,
      [i \in 1..Len(table.fields) |-> <<table.fields[i].name, table.fields[i].type>>],
      table.primary_key,
      [i \in 1..Len(table.indexes) |-> <<table.indexes[i].name, table.indexes[i].fields>>]>>

Table_from_bytes(bytes) ==
    Table(bytes[2],
          [i \in 1..Len(bytes[3]) |-> Field(bytes[3][i][1], bytes[3][i][2])],
          bytes[4],
          [i \in 1..Len(bytes[5]) |-> Index(bytes[5][i][1], bytes[5][i][2])])

\* A variant of TableMetadata::new that starts the counter at 1.
TableMetadata_new_from_one(name) == [name |-> name, max_row_id |-> 1]

TableMetadata_new(name) == [name |-> name, max_row_id |-> 0]
\* A variant of increment_max_row_id that forgets to count.
increment_max_row_id_noop(meta) == meta
increment_max_row_id(meta) == [meta EXCEPT !.max_row_id = @ + 1]
get_current_row_id(meta) == meta.max_row_id
TableMetadata_to_bytes(meta) == <<"table_metadata", meta.name, meta.max_row_id>>
TableMetadata_from_bytes(bytes) == [name |-> bytes[2], max_row_id |-> bytes[3]]

(***************************************************************************)
(* record.rs, row.rs                                                       *)
(***************************************************************************)
\* record::Column: a variant tag and its value; Null carries none.
ColString(v) == <<"String", v>>
ColInt(v) == <<"Int", v>>
ColFloat(v) == <<"Float", v>>
ColBool(v) == <<"Bool", v>>
ColBytes(v) == <<"Bytes", v>>
ColNull == <<"Null">>
Variant(column) == column[1]

\* row::Column: five optional sub-records, at most one of them set.
RowColumn_default ==
    [column_string |-> None, column_int |-> None, column_float |-> None,
     column_bool |-> None, column_bytes |-> None]

\* unreachable!("Null column is not allowed in a record"): the conversion panics.
Unreachable == [panic |-> "Null column is not allowed in a record"]

\* impl From<&Column> for row::Column
RowColumn_from(column) ==
    CASE Variant(column) = "String" -> [RowColumn_default EXCEPT !.column_string = Some(column[2])]
      [] Variant(column) = "Int"    -> [RowColumn_default EXCEPT !.column_int = Some(column[2])]
      [] Variant(column) = "Float"  -> [RowColumn_default EXCEPT !.column_float = Some(column[2])]
      [] Variant(column) = "Bool"   -> [RowColumn_default EXCEPT !.column_bool = Some(column[2])]
      [] Variant(column) = "Bytes"  -> [RowColumn_default EXCEPT !.column_bytes = Some(column[2])]
      [] Variant(column) = "Null"   -> Unreachable

\* A variant of the conversion that skips Null columns instead of adding None.
Row_from_record_skip_null(record) ==
    LET typed == SelectSeq(record, LAMBDA c : Variant(c) # "Null")
    IN [i \in 1..Len(typed) |-> Some(RowColumn_from(typed[i]))]

\* A variant of the conversion that converts every column, Null included.
Row_from_record_no_null_check(record) ==
    [i \in 1..Len(record) |-> Some(RowColumn_from(record[i]))]

\* impl From<&Record> for Row: Null becomes None, the others Some(row column).
Row_from_record(record) ==
    [i \in 1..Len(record) |->
        IF Variant(record[i]) = "Null" THEN None ELSE Some(RowColumn_from(record[i]))]

\* impl From<row::Column> for Column: the first sub-record that is set wins.
Column_from(value) ==
    IF IsSome(value.column_string) THEN ColString(value.column_string[1])
    ELSE IF IsSome(value.column_int) THEN ColInt(value.column_int[1])
    ELSE IF IsSome(value.column_float) THEN ColFloat(value.column_float[1])
    ELSE IF IsSome(value.column_bool) THEN ColBool(value.column_bool[1])
    ELSE IF IsSome(value.column_bytes) THEN ColBytes(value.column_bytes[1])
    ELSE ColNull

\* impl From<Row> for Record
Record_from_row(row) ==
    [i \in 1..Len(row) |-> IF IsSome(row[i]) THEN Column_from(row[i][1]) ELSE ColNull]

\* Row::to_bytes / from_bytes: an array of unions, branch 0 for null and
\* branch 1 for the record of the five optional sub-records.
Row_to_bytes(row) ==
    [i \in 1..Len(row) |->
        IF IsSome(row[i])
        THEN <<1, row[i][1].column_string, row[i][1].column_int, row[i][1].column_float,
               row[i][1].column_bool, row[i][1].column_bytes>>
        ELSE <<0>>]

Row_from_bytes(bytes) ==
    [i \in 1..Len(bytes) |->
        IF bytes[i][1] = 0 THEN None
        ELSE Some([column_string |-> bytes[i][2], column_int |-> bytes[i][3],
                   column_float |-> bytes[i][4], column_bool |-> bytes[i][5],
                   column_bytes |-> bytes[i][6]])]

\* impl TuplePack for Column: the tuple layer's type code, then the value.
PackColumn(column) ==
    CASE Variant(column) = "String" -> <<2, column[2]>>
      [] Variant(column) = "Int"    -> <<20, column[2]>>
      [] Variant(column) = "Float"  -> <<33, column[2]>>
      [] Variant(column) = "Bool"   -> <<IF column[2] THEN 39 ELSE 38>>
      [] Variant(column) = "Bytes"  -> <<1, column[2]>>
      [] Variant(column) = "Null"   -> <<5, 0>>

\* impl TuplePack for Columns
PackColumns(columns) == [i \in 1..Len(columns) |-> PackColumn(columns[i])]

\* pack(&row_id) and unpack::<i64>
PackI64(n) == <<20, n>>
UnpackI64(bytes) == bytes[2]

(***************************************************************************)
(* database.rs: the key space.  A key is the data prefix, the table name   *)
(* and, below Row, PrimaryKey and Index, one packed tuple.                  *)
(***************************************************************************)
DataPrefix_Table == 1
DataPrefix_TableMeta == 2
DataPrefix_Row == 3
DataPrefix_PrimaryKey == 4
DataPrefix_Index == 5

TableKey(table_name) == <<DataPrefix_Table, table_name>>
\* A variant of the metadata key that leaves the table name out.
TableMetaKey_shared(table_name) == <<DataPrefix_TableMeta, "A">>
TableMetaKey(table_name) == <<DataPrefix_TableMeta, table_name>>
RowKey(table_name, row_id) == <<DataPrefix_Row, table_name, PackI64(row_id)>>
PrimaryKeyKey(table_name, pk) == <<DataPrefix_PrimaryKey, table_name, PackColumns(pk)>>
IndexKey(table_name, columns) == <<DataPrefix_Index, table_name, PackColumns(columns)>>

(***************************************************************************)
(* The transaction handed to a body by the retry driver: a write buffer    *)
(* and the set of keys read with conflict checking.  Reads see the         *)
(* transaction's own writes over the store at its read version.            *)
(***************************************************************************)
NoWrites == [k \in {} |-> <<>>]
NewTrx == [writes |-> NoWrites, reads |-> {}]

\* trx.set(key, value)
TrxSet(trx, key, value) ==
    [trx EXCEPT !.writes =
        [k \in (DOMAIN trx.writes) \cup {key} |-> IF k = key THEN value ELSE trx.writes[k]]]

\* trx.get(key, snapshot): a snapshot read adds no read conflict.
TrxGet(trx, store, key, snapshot) ==
    [trx |-> IF snapshot THEN trx ELSE [trx EXCEPT !.reads = @ \cup {key}],
     val |-> IF key \in DOMAIN trx.writes THEN Some(trx.writes[key])
             ELSE IF key \in DOMAIN store THEN Some(store[key])
             ELSE None]

\* The store after a commit of the buffered writes.
ApplyWrites(store, writes) ==
    [k \in (DOMAIN store) \cup (DOMAIN writes) |->
        IF k \in DOMAIN writes THEN writes[k] ELSE store[k]]

(***************************************************************************)
(* database.rs: helpers of the transaction bodies.  Each returns the       *)
(* transaction as it leaves it (trx) and its value (val).                  *)
(***************************************************************************)
\* A variant of get_table_internal that reads the schema as a snapshot read.
get_table_internal_snapshot(trx, store, table_name) ==
    LET got == TrxGet(trx, store, TableKey(table_name), TRUE)
    IN [trx |-> got.trx,
        val |-> IF IsSome(got.val) THEN Some(Table_from_bytes(got.val[1])) ELSE None]

get_table_internal(trx, store, table_name) ==
    LET got == TrxGet(trx, store, TableKey(table_name), FALSE)
    IN [trx |-> got.trx,
        val |-> IF IsSome(got.val) THEN Some(Table_from_bytes(got.val[1])) ELSE None]

update_table_internal(trx, table) ==
    TrxSet(trx, TableKey(table.name), Table_to_bytes(table))

\* A variant of get_table_meta that reads the metadata as a snapshot read.
get_table_meta_snapshot(trx, store, table_name) ==
    LET got == TrxGet(trx, store, TableMetaKey(table_name), TRUE)
    IN IF IsSome(got.val)
       THEN [trx |-> got.trx, val |-> TableMetadata_from_bytes(got.val[1])]
       ELSE [trx |-> TrxSet(got.trx, TableMetaKey(table_name),
                            TableMetadata_to_bytes(TableMetadata_new(table_name))),
             val |-> TableMetadata_new(table_name)]

get_table_meta(trx, store, table_name) ==
    LET got == TrxGet(trx, store, TableMetaKey(table_name), FALSE)
    IN IF IsSome(got.val)
       THEN [trx |-> got.trx, val |-> TableMetadata_from_bytes(got.val[1])]
       ELSE [trx |-> TrxSet(got.trx, TableMetaKey(table_name),
                            TableMetadata_to_bytes(TableMetadata_new(table_name))),
             val |-> TableMetadata_new(table_name)]

\* format!("{:?}") of a value whose type derives Debug; a text is the
\* sequence of its tokens.  A field type prints as its name, a column as
\* its variant name followed, for every variant but Null, by the value in
\* parentheses.
FieldType_fmt_debug(field_type) == <<field_type>>
Column_fmt_debug(column) ==
    IF Variant(column) = "Null" THEN <<"Null">>
    ELSE <<Variant(column), "(", column[2], ")">>

\* A variant of check_field_against_column that lets Null pass for every type.
check_field_against_column_null_ok(field_type, column) ==
    IF Variant(column) = "Null" \/ (field_type \in FieldType /\ Variant(column) = field_type)
    THEN Ok(Unit)
    ELSE Err(MismatchedColumnType(FieldType_fmt_debug(field_type), Column_fmt_debug(column)))

check_field_against_column(field_type, column) ==
    IF field_type \in FieldType /\ Variant(column) = field_type
    THEN Ok(Unit)
    ELSE Err(MismatchedColumnType(FieldType_fmt_debug(field_type), Column_fmt_debug(column)))

\* A variant of the zip loop of insert that refuses a record whose length is
\* not the number of fields.
CheckColumns_same_length(table, record) ==
    LET n == Min(Len(table.fields), Len(record))
        bad == {i \in 1..n : IsErr(check_field_against_column(table.fields[i].type, record[i]))}
    IN IF Len(record) # Len(table.fields)
       THEN Err(MismatchedColumnType(<<"fields">>, <<"columns">>))
       ELSE IF bad = {} THEN Ok(Unit)
       ELSE LET i == CHOOSE x \in bad : \A y \in bad : x <= y
            IN check_field_against_column(table.fields[i].type, record[i])

\* The zip loop of insert: the first failing pair, in field order, decides.
CheckColumns(table, record) ==
    LET n == Min(Len(table.fields), Len(record))
        bad == {i \in 1..n : IsErr(check_field_against_column(table.fields[i].type, record[i]))}
    IN IF bad = {} THEN Ok(Unit)
       ELSE LET i == CHOOSE x \in bad : \A y \in bad : x <= y
            IN check_field_against_column(table.fields[i].type, record[i])

\* A variant of ColumnOfField that takes Null for a column the record lacks.
ColumnOfField_pad_null(table, record, field) ==
    LET pos == get_field_pos(table, field)
    IN IF ~IsSome(pos) THEN Err(MissingColumn(field))
       ELSE IF pos[1] > Len(record) THEN Ok(ColNull)
       ELSE Ok(record[pos[1]])

\* The column of the record at the position of a named field.
ColumnOfField(table, record, field) ==
    LET pos == get_field_pos(table, field)
    IN IF ~IsSome(pos) THEN Err(MissingColumn(field))
       ELSE IF pos[1] > Len(record) THEN Err(MissingColumn(field))
       ELSE Ok(record[pos[1]])

\* The loops that gather the columns of a list of field names, in order:
\* the first field without a column fails the whole gathering.
RECURSIVE GatherColumns(_, _, _)
GatherColumns(table, record, fields) ==
    IF fields = <<>> THEN Ok(<<>>)
    ELSE LET head == ColumnOfField(table, record, Head(fields))
         IN IF IsErr(head) THEN head
            ELSE LET rest == GatherColumns(table, record, Tail(fields))
                 IN IF IsErr(rest) THEN rest ELSE Ok(<<head[2]>> \o rest[2])

\* A variant of the "store index" loop that stops after the first index.
StoreIndexes_first_only(trx, table, record, row_id, i) ==
    IF Len(table.indexes) = 0 THEN [trx |-> trx, res |-> Ok(Unit)]
    ELSE LET columns == GatherColumns(table, record, table.indexes[1].fields)
         IN IF IsErr(columns) THEN [trx |-> trx, res |-> columns]
            ELSE [trx |-> TrxSet(trx, IndexKey(table.name, columns[2]), PackI64(row_id)),
                  res |-> Ok(Unit)]

\* A variant of the "store index" loop that puts the name of the index into
\* the key of its entry.
RECURSIVE StoreIndexes_named_key(_, _, _, _, _)
StoreIndexes_named_key(trx, table, record, row_id, i) ==
    IF i > Len(table.indexes) THEN [trx |-> trx, res |-> Ok(Unit)]
    ELSE LET columns == GatherColumns(table, record, table.indexes[i].fields)
         IN IF IsErr(columns) THEN [trx |-> trx, res |-> columns]
            ELSE StoreIndexes_named_key(
                    TrxSet(trx, <<DataPrefix_Index, table.name, table.indexes[i].name,
                                  PackColumns(columns[2])>>, PackI64(row_id)),
                    table, record, row_id, i + 1)

\* The "store index" loop of insert over the indexes from position i on.
RECURSIVE StoreIndexes(_, _, _, _, _)
StoreIndexes(trx, table, record, row_id, i) ==
    IF i > Len(table.indexes) THEN [trx |-> trx, res |-> Ok(Unit)]
    ELSE LET columns == GatherColumns(table, record, table.indexes[i].fields)
         IN IF IsErr(columns) THEN [trx |-> trx, res |-> columns]
            ELSE StoreIndexes(
                    TrxSet(trx, IndexKey(table.name, columns[2]), PackI64(row_id)),
                    table, record, row_id, i + 1)

(***************************************************************************)
(* database.rs: the transaction bodies.  A body is a function of the store *)
(* at the transaction's read version and of the operation's inputs; it     *)
(* returns the transaction as the body left it (trx), the body's result    *)
(* (res) and, for insert, the row-id and primary key it used (aux).        *)
(***************************************************************************)
\* `?` inside a body: the domain error enters the driver's custom channel.
Raise(e) == Err(CustomError(e))

NoAux == <<>>

\* A variant of create_table that keeps a schema already stored under the name.
create_table_body_if_absent(store, table) ==
    LET got == TrxGet(NewTrx, store, TableKey(table.name), FALSE)
    IN [trx |-> IF IsSome(got.val) THEN TrxSet(got.trx, TableKey(table.name), got.val[1])
                ELSE TrxSet(got.trx, TableKey(table.name), Table_to_bytes(table)),
        res |-> Ok(Unit), aux |-> NoAux]

\* A variant of create_table that also starts the table metadata afresh.
create_table_body_reset_meta(store, table) ==
    [trx |-> TrxSet(TrxSet(NewTrx, TableKey(table.name), Table_to_bytes(table)),
                    TableMetaKey(table.name),
                    TableMetadata_to_bytes(TableMetadata_new(table.name))),
     res |-> Ok(Unit), aux |-> NoAux]

\* Storage::set as used by create_table: one blind write.
create_table_body(store, table) ==
    [trx |-> TrxSet(NewTrx, TableKey(table.name), Table_to_bytes(table)),
     res |-> Ok(Unit), aux |-> NoAux]

\* A variant of add_index that starts an empty schema when none is stored.
add_index_body_default_table(store, table_name, index) ==
    LET got == get_table_internal(NewTrx, store, table_name)
        table == IF IsSome(got.val) THEN got.val[1] ELSE Table(table_name, <<>>, <<>>, <<>>)
    IN [trx |-> update_table_internal(got.trx, Table_add_index(table, index)),
        res |-> Ok(Unit), aux |-> NoAux]

\* A variant of add_index whose schema read adds no read conflict.
add_index_body_snapshot(store, table_name, index) ==
    LET got == get_table_internal_snapshot(NewTrx, store, table_name)
    IN IF ~IsSome(got.val)
       THEN [trx |-> got.trx, res |-> Raise(TableNotFound(table_name)), aux |-> NoAux]
       ELSE [trx |-> update_table_internal(got.trx, Table_add_index(got.val[1], index)),
             res |-> Ok(Unit), aux |-> NoAux]

\* A variant of add_index that also writes the entry of the new index for
\* the first row of the table.
add_index_body_backfill(store, table_name, index) ==
    LET got == get_table_internal(NewTrx, store, table_name)
    IN IF ~IsSome(got.val)
       THEN [trx |-> got.trx, res |-> Raise(TableNotFound(table_name)), aux |-> NoAux]
       ELSE LET table == Table_add_index(got.val[1], index)
                trx1 == update_table_internal(got.trx, table)
                columns == GatherColumns(table,
                               Record_from_row(Row_from_bytes(store[RowKey(table_name, 0)])),
                               index.fields)
            IN [trx |-> IF RowKey(table_name, 0) \in DOMAIN store /\ ~IsErr(columns)
                        THEN TrxSet(trx1, IndexKey(table_name, columns[2]), PackI64(0))
                        ELSE trx1,
                res |-> Ok(Unit), aux |-> NoAux]

add_index_body(store, table_name, index) ==
    LET got == get_table_internal(NewTrx, store, table_name)
    IN IF ~IsSome(got.val)
       THEN [trx |-> got.trx, res |-> Raise(TableNotFound(table_name)), aux |-> NoAux]
       ELSE [trx |-> update_table_internal(got.trx, Table_add_index(got.val[1], index)),
             res |-> Ok(Unit), aux |-> NoAux]

get_table_body(store, table_name) ==
    LET got == get_table_internal(NewTrx, store, table_name)
    IN [trx |-> got.trx, res |-> Ok(got.val), aux |-> NoAux]

\* The body of insert once the schema is read: validation, primary key,
\* row-id allocation, index entries, payload and metadata bump.
insert_with_schema(trx, store, table, table_name, record) ==
    LET checked == CheckColumns(table, record)
        pk == GatherColumns(table, record, table.primary_key)
    IN IF IsErr(checked)
       THEN [trx |-> trx, res |-> Raise(checked[2]), aux |-> NoAux]
       ELSE IF IsErr(pk)
       THEN [trx |-> trx, res |-> Raise(pk[2]), aux |-> NoAux]
       ELSE
       LET m == get_table_meta(trx, store, table_name)
           row_id == get_current_row_id(m.val)
           t1 == TrxSet(m.trx, PrimaryKeyKey(table_name, pk[2]), PackI64(row_id))
           ix == StoreIndexes(t1, table, record, row_id, 1)
       IN IF IsErr(ix.res)
          THEN [trx |-> ix.trx, res |-> Raise(ix.res[2]), aux |-> NoAux]
          ELSE
          LET t2 == TrxSet(ix.trx, RowKey(table_name, row_id),
                           Row_to_bytes(Row_from_record(record)))
              t3 == TrxSet(t2, TableMetaKey(table_name),
                           TableMetadata_to_bytes(increment_max_row_id(m.val)))
          IN [trx |-> t3, res |-> Ok(Unit),
              aux |-> <<[row_id |-> row_id, record |-> record, pk |-> pk[2],
                         attempt |-> 1]>>]

\* A variant of the body of insert that creates the table metadata before it
\* looks at the schema.
insert_body_meta_first(store, table_name, record) ==
    LET got == get_table_internal(NewTrx, store, table_name)
    IN IF ~IsSome(got.val)
       THEN [trx |-> get_table_meta(got.trx, store, table_name).trx,
             res |-> Ok(Unit), aux |-> NoAux]
       ELSE insert_with_schema(got.trx, store, got.val[1], table_name, record)

\* A variant of the body of insert whose schema read adds no read conflict.
insert_body_snapshot_schema(store, table_name, record) ==
    LET got == get_table_internal_snapshot(NewTrx, store, table_name)
    IN IF ~IsSome(got.val)
       THEN [trx |-> got.trx, res |-> Ok(Unit), aux |-> NoAux]
       ELSE insert_with_schema(got.trx, store, got.val[1], table_name, record)

insert_body(store, table_name, record) ==
    LET got == get_table_internal(NewTrx, store, table_name)
    IN IF ~IsSome(got.val)
       THEN [trx |-> got.trx, res |-> Ok(Unit), aux |-> NoAux]
       ELSE insert_with_schema(got.trx, store, got.val[1], table_name, record)

\* A variant of the body of get_record_by_pk that reports a primary-key entry
\* without row payload as an error.
get_record_by_pk_body_strict(store, table_name, pk) ==
    LET e == TrxGet(NewTrx, store, PrimaryKeyKey(table_name, pk), FALSE)
    IN IF ~IsSome(e.val)
       THEN [trx |-> e.trx, res |-> Ok(None), aux |-> NoAux]
       ELSE LET row == TrxGet(e.trx, store, RowKey(table_name, UnpackI64(e.val[1])), FALSE)
            IN IF IsSome(row.val)
               THEN [trx |-> row.trx, res |-> Ok(row.val), aux |-> NoAux]
               ELSE [trx |-> row.trx, res |-> Raise(MissingColumn("row")), aux |-> NoAux]

\* The body of get_record_by_pk returns the raw row bytes, if any.
get_record_by_pk_body(store, table_name, pk) ==
    LET e == TrxGet(NewTrx, store, PrimaryKeyKey(table_name, pk), FALSE)
    IN IF ~IsSome(e.val)
       THEN [trx |-> e.trx, res |-> Ok(None), aux |-> NoAux]
       ELSE LET row == TrxGet(e.trx, store, RowKey(table_name, UnpackI64(e.val[1])), FALSE)
            IN [trx |-> row.trx, res |-> Ok(row.val), aux |-> NoAux]

\* What get_record_by_pk makes of its body's value after the driver returns.
DecodeRecord(raw) ==
    IF IsSome(raw) THEN Some(Record_from_row(Row_from_bytes(raw[1]))) ELSE None

\* A variant of the closure in which the metadata of insert lives outside the
\* closure, so that the increments of earlier attempts are still in it.
Body_carried_meta(o, store) ==
    CASE o.kind = "create_table" -> create_table_body(store, o.arg)
      [] o.kind = "add_index" -> add_index_body(store, o.name, o.arg)
      [] o.kind = "get_table" -> get_table_body(store, o.name)
      [] o.kind = "insert" ->
            LET out == insert_body(store, o.name, o.arg)
            IN IF out.aux = NoAux THEN out
               ELSE [out EXCEPT !.trx =
                        TrxSet(out.trx, TableMetaKey(o.name),
                               TableMetadata_to_bytes(
                                   [name |-> o.name,
                                    max_row_id |-> out.aux[1].row_id + 1 + o.attempt]))]
      [] o.kind = "get_record_by_pk" -> get_record_by_pk_body(store, o.name, o.arg)

\* The closure of the operation o, run against the store.
Body(o, store) ==
    CASE o.kind = "create_table" -> create_table_body(store, o.arg)
      [] o.kind = "add_index" -> add_index_body(store, o.name, o.arg)
      [] o.kind = "get_table" -> get_table_body(store, o.name)
      [] o.kind = "insert" -> insert_body(store, o.name, o.arg)
      [] o.kind = "get_record_by_pk" -> get_record_by_pk_body(store, o.name, o.arg)

\* The value the public operation returns once its transaction committed.
Returned(o, value) ==
    IF o.kind = "get_record_by_pk" THEN Ok(DecodeRecord(value)) ELSE Ok(value)

(***************************************************************************)
(* Inputs of the operations.                                               *)
(***************************************************************************)
AllTableNames == {"A", "AB"}
TableNames == {"A"}
ColumnValues == {ColInt(0), ColInt(1), ColString("x"), ColNull}
TrailingValues == {ColString("x"), ColNull}
Records ==
    UNION {{r \in [1..n -> ColumnValues] : \A i \in 2..n : r[i] \in TrailingValues}
           : n \in 0..MaxRecordLen}
PkTuples == [1..1 -> ColumnValues]
FieldsA == <<Field("a", "Int")>>
FieldsAB == <<Field("a", "Int"), Field("b", "String")>>
IndexB == Index("ib", <<"b">>)
IndexBA == Index("iba", <<"b", "a">>)
Indexes == {IndexB, IndexBA}
Tables ==
    UNION {{Table(n, FieldsA, <<"a">>, <<>>),
            Table(n, FieldsA, <<"b">>, <<>>),
            Table(n, FieldsAB, <<"a">>, <<IndexB>>),
            Table(n, FieldsAB, <<"b">>, <<>>)} : n \in TableNames}

(***************************************************************************)
(* The state machine.                                                      *)
(***************************************************************************)
NoOp == [kind |-> "none", name |-> "", arg |-> <<>>, attempt |-> 0]
Call(kind, name, arg) == [kind |-> kind, name |-> name, arg |-> arg, attempt |-> 1]
IdleTx == [writes |-> NoWrites, reads |-> {}, conflicted |-> FALSE,
           value |-> <<>>, aux |-> NoAux]

\* A finished call: what was called, what came back, and the writes the last
\* execution of its body had issued when it returned; n counts the returns.
Finished(o, res, issued) ==
    [n |-> last.n + 1, op |-> o, result |-> res, issued |-> issued]

\* No scan or full_scan was called.
NoStream == [state |-> "idle", from |-> <<>>, start |-> <<>>, end |-> <<>>, out |-> <<>>]

\* No conversion was applied.
NoEval == [state |-> "none", record |-> <<>>, row |-> <<>>, back |-> <<>>]

Init ==
    /\ kv = NoWrites
    /\ pc = [p \in Clients |-> "idle"]
    /\ op = [p \in Clients |-> NoOp]
    /\ tx = [p \in Clients |-> IdleTx]
    /\ last = [n |-> 0, op |-> NoOp, result |-> <<"None">>,
               issued |-> NoWrites]
    /\ insLog = [t \in AllTableNames |-> <<>>]
    /\ calls = 0
    /\ stream = NoStream
    /\ eval = NoEval

\* Database::run after one execution of the body of o with outcome out.
\* An error of the body ends the operation without a commit: the transaction
\* is dropped.  A transaction that wrote nothing commits without a conflict
\* check and changes nothing, so the operation returns its value at once.
\* Any other transaction is left to be committed.
Attempt(p, o, out) ==
    /\ IF IsErr(out.res)
       THEN /\ pc' = [pc EXCEPT ![p] = "idle"]
            /\ op' = [op EXCEPT ![p] = NoOp]
            /\ tx' = [tx EXCEPT ![p] = IdleTx]
            /\ last' = Finished(o, Err(Fdb(out.res[2])), out.trx.writes)
       ELSE IF DOMAIN out.trx.writes = {}
       THEN /\ pc' = [pc EXCEPT ![p] = "idle"]
            /\ op' = [op EXCEPT ![p] = NoOp]
            /\ tx' = [tx EXCEPT ![p] = IdleTx]
            /\ last' = Finished(o, Returned(o, out.res[2]), NoWrites)
       ELSE /\ pc' = [pc EXCEPT ![p] = "commit"]
            /\ op' = [op EXCEPT ![p] = o]
            /\ tx' = [tx EXCEPT ![p] = [writes |-> out.trx.writes, reads |-> out.trx.reads,
                                        conflicted |-> FALSE, value |-> out.res[2],
                                        aux |-> out.aux]]
            /\ UNCHANGED last
    /\ UNCHANGED <<kv, insLog, stream, eval>>

\* A caller enters a public operation.  Idle clients are interchangeable, so
\* the call is given to the first of them.
Invoke(p) ==
    /\ pc[p] = "idle"
    /\ \A q \in 1..(p - 1) : pc[q] # "idle"
    /\ calls < MaxCalls
    /\ calls' = calls + 1

create_table(p, table) ==
    /\ Invoke(p)
    /\ Attempt(p, Call("create_table", table.name, table),
               create_table_body(kv, table))

add_index(p, table_name, index) ==
    /\ Invoke(p)
    /\ Attempt(p, Call("add_index", table_name, index),
               add_index_body(kv, table_name, index))

get_table(p, table_name) ==
    /\ Invoke(p)
    /\ Attempt(p, Call("get_table", table_name, <<>>),
               get_table_body(kv, table_name))

\* A variant of insert whose body writes to the store outside its transaction.
insert_writes_through(p, table_name, record) ==
    LET out == insert_body(kv, table_name, record)
    IN /\ Invoke(p)
       /\ IF IsErr(out.res)
          THEN /\ pc' = [pc EXCEPT ![p] = "idle"]
               /\ op' = [op EXCEPT ![p] = NoOp]
               /\ tx' = [tx EXCEPT ![p] = IdleTx]
               /\ last' = Finished(Call("insert", table_name, record),
                                   Err(Fdb(out.res[2])), out.trx.writes)
               /\ kv' = ApplyWrites(kv, out.trx.writes)
               /\ UNCHANGED <<insLog, stream, eval>>
          ELSE Attempt(p, Call("insert", table_name, record), out)

insert(p, table_name, record) ==
    /\ Invoke(p)
    /\ Attempt(p, Call("insert", table_name, record),
               insert_body(kv, table_name, record))

get_record_by_pk(p, table_name, pk) ==
    /\ Invoke(p)
    /\ Attempt(p, Call("get_record_by_pk", table_name, pk),
               get_record_by_pk_body(kv, table_name, pk))

\* A variant of the retry driver that gives up instead of running the body
\* again.
Retry_gives_up(p) ==
    /\ pc[p] = "retry"
    /\ pc' = [pc EXCEPT ![p] = "idle"]
    /\ op' = [op EXCEPT ![p] = NoOp]
    /\ last' = Finished(op[p], Err(Fdb(<<"not_committed">>)), NoWrites)
    /\ UNCHANGED <<kv, tx, insLog, calls, stream, eval>>

\* The retry driver runs the body again, from scratch, in a new transaction.
Retry(p) ==
    /\ pc[p] = "retry"
    /\ Attempt(p, [op[p] EXCEPT !.attempt = @ + 1], Body(op[p], kv))
    /\ UNCHANGED calls

\* Commit of the transaction of p.  It is rejected when a key it read was
\* written by a transaction that committed after its read version, and the
\* driver retries; otherwise its writes become visible at once and every
\* pending transaction that read one of the written keys is marked.
Commit(p) ==
    /\ pc[p] = "commit"
    /\ IF tx[p].conflicted
       THEN /\ pc' = [pc EXCEPT ![p] = "retry"]
            /\ tx' = [tx EXCEPT ![p] = IdleTx]
            /\ UNCHANGED <<kv, op, last, insLog>>
       ELSE /\ kv' = ApplyWrites(kv, tx[p].writes)
            /\ pc' = [pc EXCEPT ![p] = "idle"]
            /\ op' = [op EXCEPT ![p] = NoOp]
            /\ last' = Finished(op[p], Returned(op[p], tx[p].value), tx[p].writes)
            /\ tx' = [q \in Clients |->
                        IF q = p THEN IdleTx
                        ELSE IF pc[q] = "commit" /\ tx[q].reads \cap DOMAIN tx[p].writes # {}
                        THEN [tx[q] EXCEPT !.conflicted = TRUE]
                        ELSE tx[q]]
            /\ insLog' = IF tx[p].aux = NoAux THEN insLog
                         ELSE [insLog EXCEPT ![op[p].name] =
                                  Append(@, [tx[p].aux[1] EXCEPT !.attempt = op[p].attempt])]
    /\ UNCHANGED <<calls, stream, eval>>

Next ==
    \E p \in Clients :
        \/ \E table \in Tables : create_table(p, table)
        \/ \E n \in TableNames, i \in Indexes : add_index(p, n, i)
        \/ \E n \in TableNames : get_table(p, n)
        \/ \E n \in TableNames, r \in Records : insert(p, n, r)
        \/ \E n \in TableNames, k \in PkTuples : get_record_by_pk(p, n, k)
        \/ Retry(p)
        \/ Commit(p)

Spec == Init /\ [][Next]_vars

(***************************************************************************)
(* Vocabulary of the properties.                                           *)
(***************************************************************************)
\* get_table and get_record_by_pk as a caller would see them on a store.
StoredTable(store, table_name) == get_table_body(store, table_name).res[2]
Lookup(store, table_name, pk) ==
    DecodeRecord(get_record_by_pk_body(store, table_name, pk).res[2])

\* The domain error a returned error carries.
Cause(res) == res[2][2][2]

\* This step, a call returns (last' describes it).
ReturnsNow == last'.n # last.n
\* This step, an execution of the body of p's call ends with a transaction to commit.
PendsNow(p) == pc'[p] = "commit" /\ pc[p] # "commit"
\* This step, an insert into the table returns.
InsertEnds(table_name) ==
    ReturnsNow /\ last'.op.kind = "insert" /\ last'.op.name = table_name

\* The record has, at a position it shares with the fields, another variant
\* than the type of the field there.
HasMismatch(table, record) ==
    \E i \in 1..Min(Len(table.fields), Len(record)) :
        Variant(record[i]) # table.fields[i].type

\* The primary-key fields, then the fields of each index, in schema order.
RECURSIVE IndexFields(_)
IndexFields(indexes) ==
    IF indexes = <<>> THEN <<>> ELSE Head(indexes).fields \o IndexFields(Tail(indexes))
KeyFields(table) == table.primary_key \o IndexFields(table.indexes)

\* The field is not among the fields, or the record has no column at its position.
LacksColumn(table, record, field) ==
    \A i \in 1..Len(table.fields) : table.fields[i].name = field => i > Len(record)

\* The committed inserts into a table that are the latest on their primary key.
LatestOnPk(table_name, i) ==
    \A j \in (i + 1)..Len(insLog[table_name]) :
        insLog[table_name][j].pk # insLog[table_name][i].pk

(***************************************************************************)
(* C1  Once insert(table, r) has returned success, and until another       *)
(* insert with the same primary-key tuple commits, get_record_by_pk(table, *)
(* primary-key columns of r) returns Some(r): the same columns in the same *)
(* order.                                                                  *)
(***************************************************************************)
C1_LookupReturnsInserted ==
    \A t \in AllTableNames : \A i \in 1..Len(insLog[t]) :
        LatestOnPk(t, i) =>
            Lookup(kv, t, insLog[t][i].pk) = Some(insLog[t][i].record)

\* Two rows with different primary keys are stored, one of them with a Null
\* column beyond the fields of the schema.
C1_Witness ==
    \E i, j \in 1..Len(insLog["A"]) :
        /\ insLog["A"][i].pk # insLog["A"][j].pk
        /\ \E c \in 1..Len(insLog["A"][i].record) : insLog["A"][i].record[c] = ColNull

(***************************************************************************)
(* C2  An insert that returns an error leaves the committed store exactly  *)
(* as it was, also when its body had already issued writes (the primary-   *)
(* key entry, the lazily created table metadata) before the error.         *)
(***************************************************************************)
C2_FailedInsertWritesNothing ==
    [][\A t \in AllTableNames :
          (InsertEnds(t) /\ IsErr(last'.result)) => kv' = kv]_vars

\* An insert failed with MissingColumn while gathering an index tuple, after
\* it had issued the primary-key write and the metadata write.
C2_Witness ==
    /\ last.op.kind = "insert"
    /\ IsErr(last.result)
    /\ Cause(last.result)[1] = "MissingColumn"
    /\ TableMetaKey(last.op.name) \in DOMAIN last.issued
    /\ \E k \in DOMAIN last.issued : k[1] = DataPrefix_PrimaryKey
    /\ \A k \in DOMAIN last.issued : k \notin DOMAIN kv

(***************************************************************************)
(* C3  An insert into an existing table whose record has, at a position    *)
(* below min(number of fields, number of columns), a variant other than    *)
(* the type of the field fails with MismatchedColumnType, before any write *)
(* is issued and whatever the primary-key columns are, and leaves the      *)
(* store unchanged.                                                        *)
(***************************************************************************)
C3_MismatchRejected ==
    [][\A t \in AllTableNames :
          LET schema == StoredTable(kv, t)
          IN /\ (InsertEnds(t) /\ IsSome(schema) /\ HasMismatch(schema[1], last'.op.arg)) =>
                    /\ IsErr(last'.result)
                    /\ Cause(last'.result)[1] = "MismatchedColumnType"
                    /\ DOMAIN last'.issued = {}
                    /\ kv' = kv
             /\ \A p \in Clients :
                    (PendsNow(p) /\ op'[p].kind = "insert" /\ op'[p].name = t
                        /\ IsSome(schema)) =>
                        ~HasMismatch(schema[1], op'[p].arg)]_vars

\* A record that mismatches and also lacks its primary-key column was
\* rejected for the mismatch.
C3_Witness ==
    /\ last.op.kind = "insert"
    /\ IsErr(last.result)
    /\ Cause(last.result)[1] = "MismatchedColumnType"
    /\ IsSome(StoredTable(kv, last.op.name))
    /\ \E f \in {"a", "b"} :
          /\ f \in {StoredTable(kv, last.op.name)[1].primary_key[i] :
                      i \in 1..Len(StoredTable(kv, last.op.name)[1].primary_key)}
          /\ LacksColumn(StoredTable(kv, last.op.name)[1], last.op.arg, f)

(***************************************************************************)
(* C4 as stated: an insert into an existing table whose record has no      *)
(* column at the position of some primary-key or index field (or whose     *)
(* schema names such a field that is not among its fields) fails with      *)
(* MissingColumn carrying such a field's name and leaves the store         *)
(* unchanged.                                                              *)
(***************************************************************************)
KeyFieldSet(table) == {KeyFields(table)[i] : i \in 1..Len(KeyFields(table))}
LacksKeyColumn(table, record) ==
    \E f \in KeyFieldSet(table) : LacksColumn(table, record, f)
FirstLacking(table, record) ==
    LET fs == KeyFields(table)
        i == CHOOSE x \in 1..Len(fs) :
                /\ LacksColumn(table, record, fs[x])
                /\ \A y \in 1..(x - 1) : ~LacksColumn(table, record, fs[y])
    IN fs[i]

C4_Original ==
    [][\A t \in AllTableNames :
          LET schema == StoredTable(kv, t)
          IN /\ (InsertEnds(t) /\ IsSome(schema) /\ LacksKeyColumn(schema[1], last'.op.arg)) =>
                    /\ IsErr(last'.result)
                    /\ Cause(last'.result)[1] = "MissingColumn"
                    /\ LacksColumn(schema[1], last'.op.arg, Cause(last'.result)[2])
                    /\ kv' = kv
             /\ \A p \in Clients :
                    (PendsNow(p) /\ op'[p].kind = "insert" /\ op'[p].name = t
                        /\ IsSome(schema)) =>
                        ~LacksKeyColumn(schema[1], op'[p].arg)]_vars

(***************************************************************************)
(* C4 as amended: an insert into an existing table whose record passes     *)
(* type validation and has no column at the position of some primary-key   *)
(* or index field (or whose schema names such a field that is not among    *)
(* its fields) fails with MissingColumn carrying the name of the first     *)
(* such field, primary key first and then the indexes in order, and leaves *)
(* the store unchanged.                                                    *)
(***************************************************************************)
C4_MissingColumnRejected ==
    [][\A t \in AllTableNames :
          LET schema == StoredTable(kv, t)
          IN /\ (InsertEnds(t) /\ IsSome(schema) /\ ~HasMismatch(schema[1], last'.op.arg)
                    /\ LacksKeyColumn(schema[1], last'.op.arg)) =>
                    /\ last'.result = Err(Fdb(CustomError(
                            MissingColumn(FirstLacking(schema[1], last'.op.arg)))))
                    /\ kv' = kv
             /\ \A p \in Clients :
                    (PendsNow(p) /\ op'[p].kind = "insert" /\ op'[p].name = t
                        /\ IsSome(schema)) =>
                        ~LacksKeyColumn(schema[1], op'[p].arg)]_vars

\* An insert failed with MissingColumn for an index field, its primary-key
\* columns being present.
C4_Witness ==
    /\ last.op.kind = "insert"
    /\ IsErr(last.result)
    /\ Cause(last.result)[1] = "MissingColumn"
    /\ IsSome(StoredTable(kv, last.op.name))
    /\ LET table == StoredTable(kv, last.op.name)[1]
       IN /\ Cause(last.result)[2] = FirstLacking(table, last.op.arg)
          /\ \A i \in 1..Len(table.primary_key) :
                ~LacksColumn(table, last.op.arg, table.primary_key[i])

(***************************************************************************)
(* C5  For every table, the row-ids of the committed inserts are 0, 1, 2,  *)
(* ... in commit order, whatever retries and concurrent inserts occurred.  *)
(***************************************************************************)
C5_RowIdsContiguous ==
    \A t \in AllTableNames : \A i \in 1..Len(insLog[t]) :
        insLog[t][i].row_id = i - 1

\* Two inserts committed, the second after its body was run again.
C5_Witness ==
    /\ Len(insLog["A"]) >= 2
    /\ insLog["A"][2].attempt >= 2

C7_CreateThenGetTable ==
    [][(ReturnsNow /\ last'.op.kind = "create_table" /\ IsOk(last'.result)) =>
          /\ IsSome(StoredTable(kv', last'.op.name))
          /\ StoredTable(kv', last'.op.name)[1].name = last'.op.arg.name
          /\ StoredTable(kv', last'.op.name)[1].fields = last'.op.arg.fields
          /\ StoredTable(kv', last'.op.name)[1].primary_key = last'.op.arg.primary_key
          /\ StoredTable(kv', last'.op.name)[1].indexes = last'.op.arg.indexes]_vars

\* create_table returned on a name whose schema had an index (an insert that
\* read it is pending with an index entry), and the stored schema is the new
\* one, without index.
C7_Witness ==
    /\ last.op.kind = "create_table"
    /\ IsOk(last.result)
    /\ StoredTable(kv, last.op.name) = Some(last.op.arg)
    /\ last.op.arg.indexes = <<>>
    /\ \E p \in Clients :
          /\ pc[p] = "commit"
          /\ op[p].kind = "insert"
          /\ op[p].name = last.op.name
          /\ tx[p].conflicted
          /\ \E k \in DOMAIN tx[p].writes : k[1] = DataPrefix_Index

(***************************************************************************)
(* C8  add_index on a table name with no stored schema fails with          *)
(* TableNotFound for that name and writes nothing: no schema key is        *)
(* created and the store is unchanged.                                     *)
(***************************************************************************)
C8_AddIndexUnknownTable ==
    [][\A t \in AllTableNames :
          /\ (ReturnsNow /\ last'.op.kind = "add_index" /\ last'.op.name = t
                /\ TableKey(t) \notin DOMAIN kv) =>
                /\ last'.result = Err(Fdb(CustomError(TableNotFound(t))))
                /\ DOMAIN last'.issued = {}
                /\ kv' = kv
          /\ \A p \in Clients :
                (PendsNow(p) /\ op'[p].kind = "add_index" /\ op'[p].name = t) =>
                    TableKey(t) \in DOMAIN kv]_vars

\* add_index failed on a name without schema.
C8_Witness ==
    /\ last.op.kind = "add_index"
    /\ IsErr(last.result)
    /\ TableKey(last.op.name) \notin DOMAIN kv

(***************************************************************************)
(* C9  When add_index(table_name, index) returns success, get_table        *)
(* returns the schema stored just before with index appended as the last   *)
(* element of indexes; name, fields, primary_key and the earlier indexes,  *)
(* in their order, are unchanged.                                          *)
(***************************************************************************)
C9_AddIndexAppends ==
    [][(ReturnsNow /\ last'.op.kind = "add_index" /\ IsOk(last'.result)) =>
          /\ IsSome(StoredTable(kv, last'.op.name))
          /\ IsSome(StoredTable(kv', last'.op.name))
          /\ LET old == StoredTable(kv, last'.op.name)[1]
                 new == StoredTable(kv', last'.op.name)[1]
             IN /\ new.name = old.name
                /\ new.fields = old.fields
                /\ new.primary_key = old.primary_key
                /\ Len(new.indexes) = Len(old.indexes) + 1
                /\ new.indexes[Len(new.indexes)] = last'.op.arg
                /\ \A i \in 1..Len(old.indexes) : new.indexes[i] = old.indexes[i]]_vars

\* add_index returned success on a schema that already had another index.
C9_Witness ==
    /\ last.op.kind = "add_index"
    /\ IsOk(last.result)
    /\ IsSome(StoredTable(kv, last.op.name))
    /\ Len(StoredTable(kv, last.op.name)[1].indexes) = 2
    /\ StoredTable(kv, last.op.name)[1].indexes[1] # StoredTable(kv, last.op.name)[1].indexes[2]

(***************************************************************************)
(* C10  When two inserts with the same primary-key tuple into the same     *)
(* table both committed, the primary-key entry maps to the row-id of the   *)
(* later one, get_record_by_pk returns the later record, and the row       *)
(* payload of the earlier one is still stored under its own, different,    *)
(* row-id.                                                                 *)
(***************************************************************************)
C10_DuplicatePkOverwrites ==
    \A t \in AllTableNames : \A i, j \in 1..Len(insLog[t]) :
        (i < j /\ insLog[t][i].pk = insLog[t][j].pk /\ LatestOnPk(t, j)) =>
            /\ insLog[t][i].row_id # insLog[t][j].row_id
            /\ PrimaryKeyKey(t, insLog[t][j].pk) \in DOMAIN kv
            /\ UnpackI64(kv[PrimaryKeyKey(t, insLog[t][j].pk)]) = insLog[t][j].row_id
            /\ Lookup(kv, t, insLog[t][j].pk) = Some(insLog[t][j].record)
            /\ RowKey(t, insLog[t][i].row_id) \in DOMAIN kv
            /\ Record_from_row(Row_from_bytes(kv[RowKey(t, insLog[t][i].row_id)]))
                   = insLog[t][i].record

\* Two different records were inserted under one primary key.
C10_Witness ==
    \E i, j \in 1..Len(insLog["A"]) :
        /\ i < j
        /\ insLog["A"][i].pk = insLog["A"][j].pk
        /\ insLog["A"][i].record # insLog["A"][j].record

(***************************************************************************)
(* The storage facade next to the database core.  Storage::delete clears   *)
(* one key in a transaction of its own; it reads nothing, so its commit    *)
(* cannot be rejected and the clear takes effect at its commit point.      *)
(***************************************************************************)
\* The keys a caller of the facade clears here: row payloads and
\* primary-key entries that are stored.
DeletableKeys == {k \in DOMAIN kv : k[1] \in {DataPrefix_Row, DataPrefix_PrimaryKey}}

Storage_delete(p, key) ==
    /\ Invoke(p)
    /\ key \in DOMAIN kv
    /\ kv' = [k \in (DOMAIN kv) \ {key} |-> kv[k]]
    /\ tx' = [q \in Clients |->
                IF pc[q] = "commit" /\ key \in tx[q].reads
                THEN [tx[q] EXCEPT !.conflicted = TRUE]
                ELSE tx[q]]
    /\ last' = Finished(Call("delete", key[2], key), Ok(Unit), NoWrites)
    /\ UNCHANGED <<pc, op, insLog, stream, eval>>

\* The database core used together with Storage::delete on its keys, from a
\* store that is empty or holds one schema that create_table committed.
InitFacade ==
    /\ kv \in {NoWrites} \cup {create_table_body(NoWrites, table).trx.writes : table \in Tables}
    /\ pc = [p \in Clients |-> "idle"]
    /\ op = [p \in Clients |-> NoOp]
    /\ tx = [p \in Clients |-> IdleTx]
    /\ last = [n |-> 0, op |-> NoOp, result |-> <<"None">>,
               issued |-> NoWrites]
    /\ insLog = [t \in AllTableNames |-> <<>>]
    /\ calls = 0
    /\ stream = NoStream
    /\ eval = NoEval

\* The records inserted here: at most one column.
ShortRecords == {r \in Records : Len(r) <= 1}

NextFacade ==
    \E p \in Clients :
        \/ \E n \in TableNames, r \in ShortRecords : insert(p, n, r)
        \/ \E n \in TableNames, k \in PkTuples : get_record_by_pk(p, n, k)
        \/ \E key \in DeletableKeys : Storage_delete(p, key)
        \/ Retry(p)
        \/ Commit(p)

SpecFacade == InitFacade /\ [][NextFacade]_vars

\* The primary-key entry of (table_name, pk) is stored, the row payload it
\* points to is not.
Dangling(store, table_name, pk) ==
    /\ PrimaryKeyKey(table_name, pk) \in DOMAIN store
    /\ RowKey(table_name, UnpackI64(store[PrimaryKeyKey(table_name, pk)])) \notin DOMAIN store

as_bytes(s) ==
    CASE s = "A" -> <<65>>
      [] s = "AB" -> <<65, 66>>
      [] s = "x" -> <<120>>

\* An integer below 256: the code of zero, or the code of one byte and the byte.
IntBytes(n) == IF n = 0 THEN <<20>> ELSE <<21, n>>
StringBytes(s) == <<2>> \o as_bytes(s) \o <<0>>

\* One packed column of a primary-key or index tuple.
ColumnBytes(packed) ==
    CASE packed[1] = 2 -> StringBytes(packed[2])
      [] packed[1] = 20 -> IntBytes(packed[2])
      [] packed[1] \in {38, 39} -> <<packed[1]>>
      [] packed[1] = 5 -> <<5, 0>>

RECURSIVE TupleBytes(_)
TupleBytes(columns) ==
    IF columns = <<>> THEN <<>>
    ELSE ColumnBytes(Head(columns)) \o TupleBytes(Tail(columns))

\* subspace(prefix).pack(name) and subspace(prefix).subspace(name).pack(tuple)
KeyBytes(key) ==
    IntBytes(key[1]) \o StringBytes(key[2]) \o
        (IF Len(key) = 2 THEN <<>>
         ELSE IF key[1] = DataPrefix_Row THEN IntBytes(UnpackI64(key[3]))
         ELSE TupleBytes(key[3]))

(***************************************************************************)
(* The database core on two tables whose names share a prefix, from a      *)
(* store in which both were created.                                       *)
(***************************************************************************)
TwoTables(n) == {Table(n, FieldsA, <<"a">>, <<>>), Table(n, FieldsAB, <<"a">>, <<IndexB>>)}
TwoRecords == {<<ColInt(0)>>, <<ColInt(0), ColString("x")>>}

InitTwo ==
    /\ \E ta \in TwoTables("A"), tb \in TwoTables("AB") :
          kv = ApplyWrites(create_table_body(NoWrites, ta).trx.writes,
                           create_table_body(NoWrites, tb).trx.writes)
    /\ pc = [p \in Clients |-> "idle"]
    /\ op = [p \in Clients |-> NoOp]
    /\ tx = [p \in Clients |-> IdleTx]
    /\ last = [n |-> 0, op |-> NoOp, result |-> <<"None">>,
               issued |-> NoWrites]
    /\ insLog = [t \in AllTableNames |-> <<>>]
    /\ calls = 0
    /\ stream = NoStream
    /\ eval = NoEval

NextTwo ==
    \E p \in Clients :
        \/ \E n \in AllTableNames : \E table \in TwoTables(n) : create_table(p, table)
        \/ \E n \in AllTableNames : add_index(p, n, IndexB)
        \/ \E n \in AllTableNames, r \in TwoRecords : insert(p, n, r)
        \/ Retry(p)
        \/ Commit(p)

SpecTwo == InitTwo /\ [][NextTwo]_vars

\* The keys of a table in a store.
KeysOf(store, table_name) == {k \in DOMAIN store : k[2] = table_name}

\* max_row_id of a table as stored, if any.
StoredMaxRowId(store, table_name) ==
    IF TableMetaKey(table_name) \in DOMAIN store
    THEN Some(get_current_row_id(TableMetadata_from_bytes(store[TableMetaKey(table_name)])))
    ELSE None

(***************************************************************************)
(* C12  For two distinct table names n and m, a create_table, add_index or *)
(* insert on n that returns leaves every key of m as it was (none created, *)
(* changed or removed), so that get_table(m), the max_row_id of m and      *)
(* get_record_by_pk(m, pk) for every pk return what they returned before;  *)
(* and no key the operation wrote has the bytes of a key of m.             *)
(***************************************************************************)
C12_OtherTableUntouched ==
    [][\A n, m \in AllTableNames :
          (/\ n # m
           /\ ReturnsNow
           /\ last'.op.kind \in {"create_table", "add_index", "insert"}
           /\ last'.op.name = n) =>
              /\ KeysOf(kv', m) = KeysOf(kv, m)
              /\ \A k \in KeysOf(kv, m) : kv'[k] = kv[k]
              /\ StoredTable(kv', m) = StoredTable(kv, m)
              /\ StoredMaxRowId(kv', m) = StoredMaxRowId(kv, m)
              /\ \A pk \in PkTuples : Lookup(kv', m, pk) = Lookup(kv, m, pk)
              /\ \A k \in DOMAIN last'.issued : \A k2 \in KeysOf(kv, m) :
                    KeyBytes(k) # KeyBytes(k2)]_vars

\* An insert into "AB" committed with an index entry while "A" holds a row
\* under the same primary-key tuple.
C12_Witness ==
    /\ last.op.kind = "insert"
    /\ last.op.name = "AB"
    /\ IsOk(last.result)
    /\ \E k \in DOMAIN last.issued : k[1] = DataPrefix_Index
    /\ \E i \in 1..Len(insLog["A"]) : \E j \in 1..Len(insLog["AB"]) :
          insLog["A"][i].pk = insLog["AB"][j].pk

(***************************************************************************)
(* storage.rs: scan and full_scan over byte-string keys.  Keys are         *)
(* sequences of bytes, ordered as the store orders them: byte by byte, a   *)
(* proper prefix before its extensions.                                    *)
(***************************************************************************)
MAX_SCAN_SIZE == 20
MaxFill == 20

KeyLess(a, b) ==
    \E i \in 1..Len(b) :
        /\ \A j \in 1..(i - 1) : j <= Len(a) /\ a[j] = b[j]
        /\ (i > Len(a) \/ a[i] < b[i])

\* The keys of the store in [start, end): what a range read selects.  A
\* range whose start is not below its end selects nothing.
RangeKeys(store, start, end) ==
    {k \in DOMAIN store : ~KeyLess(k, start) /\ KeyLess(k, end)}

\* The pairs of a set of keys of the store, in ascending key order.
RECURSIVE SortedPairs(_, _)
SortedPairs(store, keys) ==
    IF keys = {} THEN <<>>
    ELSE LET k == CHOOSE x \in keys : \A y \in keys : y = x \/ KeyLess(x, y)
         IN <<<<k, store[k]>>>> \o SortedPairs(store, keys \ {k})

\* trx.get_ranges_keyvalues(RangeOption::from((start, end)), false)
get_ranges_keyvalues(store, start, end) ==
    SortedPairs(store, RangeKeys(store, start, end))

\* A variant of collect_stream that collects the whole stream.
collect_stream_all(items) == items

\* collect_stream: the first 20 items of the stream.
collect_stream(items) == SubSeq(items, 1, Min(Len(items), MAX_SCAN_SIZE))

\* The closure of Storage::scan; it writes nothing, so there is nothing to commit.
scan_body(store, start, end) == collect_stream(get_ranges_keyvalues(store, start, end))

\* The stores scanned here: some of the keys <<1, 1>> .. <<1, MaxFill>> in
\* order, and any of the keys made of the byte 2 followed by up to two of
\* the bytes 0 and 255, each key with a value of its own.
FillKeys(n) == {<<1, i>> : i \in 1..n}
VarKeys ==
    {<<2>>} \cup {<<2, b>> : b \in {0, 255}} \cup {<<2, b, c>> : b \in {0, 255}, c \in {0, 255}}
ValueOf(key) == <<"value">> \o key
Stores ==
    {[k \in FillKeys(n) \cup v |-> ValueOf(k)] : n \in 0..MaxFill, v \in SUBSET VarKeys}
ScanStarts == {<<>>, <<2>>}
ScanEnds == {<<2, 255>>, <<255>>}

InitScan ==
    /\ kv \in Stores
    /\ pc = [p \in Clients |-> "idle"]
    /\ op = [p \in Clients |-> NoOp]
    /\ tx = [p \in Clients |-> IdleTx]
    /\ last = [n |-> 0, op |-> NoOp, result |-> <<"None">>,
               issued |-> NoWrites]
    /\ insLog = [t \in AllTableNames |-> <<>>]
    /\ calls = 0
    /\ stream = NoStream
    /\ eval = NoEval

\* Storage::scan: one range read, returned as a vector.
scan(start, end) ==
    /\ stream.state = "idle"
    /\ stream' = [state |-> "returned", from |-> start, start |-> start, end |-> end,
                  out |-> scan_body(kv, start, end)]
    /\ UNCHANGED <<kv, pc, op, tx, last, insLog, calls, eval>>

\* Storage::full_scan: the stream is created; nothing is read yet.
full_scan(start, end) ==
    /\ stream.state = "idle"
    /\ stream' = [state |-> "streaming", from |-> start, start |-> start, end |-> end,
                  out |-> <<>>]
    /\ UNCHANGED <<kv, pc, op, tx, last, insLog, calls, eval>>

\* A variant of the loop of full_scan that restarts at the last key of the
\* page, without the byte 255.
full_scan_loop_reuse_last ==
    /\ stream.state = "streaming"
    /\ LET kvs == scan_body(kv, stream.start, stream.end)
       IN stream' = IF kvs = <<>>
                    THEN [stream EXCEPT !.state = "done"]
                    ELSE [stream EXCEPT !.start = kvs[Len(kvs)][1],
                                        !.out = @ \o kvs]
    /\ UNCHANGED <<kv, pc, op, tx, last, insLog, calls, eval>>

\* One turn of the loop of full_scan: a scan from the current start; an
\* empty page ends the stream, any other page is yielded and the next start
\* is the last key of the page with the byte 255 appended.
full_scan_loop ==
    /\ stream.state = "streaming"
    /\ LET kvs == scan_body(kv, stream.start, stream.end)
       IN stream' = IF kvs = <<>>
                    THEN [stream EXCEPT !.state = "done"]
                    ELSE [stream EXCEPT !.start = Append(kvs[Len(kvs)][1], 255),
                                        !.out = @ \o kvs]
    /\ UNCHANGED <<kv, pc, op, tx, last, insLog, calls, eval>>

NextScan ==
    \/ \E s \in ScanStarts, e \in ScanEnds : scan(s, e)
    \/ \E s \in ScanStarts, e \in ScanEnds : full_scan(s, e)
    \/ full_scan_loop

SpecScan == InitScan /\ [][NextScan]_vars

(***************************************************************************)
(* C13  With no concurrent writer, for every set of N stored keys in       *)
(* [start, end), N above the page size included, and keys that are proper  *)
(* prefixes of other keys included, full_scan(start, end) yields exactly   *)
(* those N pairs, each once, in ascending key order.                       *)
(***************************************************************************)
C13_FullScanComplete ==
    stream.state = "done" =>
        stream.out = SortedPairs(kv, RangeKeys(kv, stream.from, stream.end))

(***************************************************************************)
(* C14  scan(start, end) returns the pairs whose key k satisfies           *)
(* start <= k < end, in ascending key order, cut to the first              *)
(* MAX_SCAN_SIZE = 20: with N keys in the range, min(N, 20) pairs.         *)
(***************************************************************************)
C14_ScanBounded ==
    stream.state = "returned" =>
        LET in_range == RangeKeys(kv, stream.from, stream.end)
            got == {stream.out[i][1] : i \in 1..Len(stream.out)}
        IN /\ Len(stream.out) = Min(Cardinality(in_range), 20)
           /\ got \subseteq in_range
           /\ \A i \in 1..Len(stream.out) : stream.out[i][2] = kv[stream.out[i][1]]
           /\ \A i \in 1..(Len(stream.out) - 1) : KeyLess(stream.out[i][1], stream.out[i + 1][1])
           /\ \A k \in in_range \ got : \A g \in got : KeyLess(g, k)

\* A scan of a range holding more than 20 keys returned 20 pairs, the first
\* 20 in key order; the end key is stored and was left out.
C14_Witness ==
    /\ stream.state = "returned"
    /\ Len(stream.out) = 20
    /\ Cardinality(RangeKeys(kv, stream.from, stream.end)) > 20
    /\ stream.end \in DOMAIN kv

(***************************************************************************)
(* C15  When the body of insert or add_index fails with a domain error     *)
(* (MismatchedColumnType, MissingColumn, TableNotFound), the body is not   *)
(* run again and the public operation returns that domain error itself,    *)
(* with its payload, not a storage error that wraps it.                    *)
(***************************************************************************)
DomainErrors == {"MismatchedColumnType", "MissingColumn", "TableNotFound"}

C15_DomainErrorReturnedBare ==
    [][(ReturnsNow /\ last'.op.kind \in {"insert", "add_index"} /\ IsErr(last'.result)) =>
          /\ last'.result[2][1] \in DomainErrors
          /\ \A p \in Clients : pc'[p] = "retry" => pc[p] = "retry"]_vars

(***************************************************************************)
(* Record and Row conversions applied on their own to a record.            *)
(***************************************************************************)
AllColumnValues ==
    {ColString("x"), ColInt(0), ColFloat("20.5"), ColBool(TRUE), ColBytes(<<1>>), ColNull}
AllRecords == UNION {[1..n -> AllColumnValues] : n \in 0..MaxRecordLen}

InitConvert ==
    /\ kv = NoWrites
    /\ pc = [p \in Clients |-> "idle"]
    /\ op = [p \in Clients |-> NoOp]
    /\ tx = [p \in Clients |-> IdleTx]
    /\ last = [n |-> 0, op |-> NoOp, result |-> <<"None">>,
               issued |-> NoWrites]
    /\ insLog = [t \in AllTableNames |-> <<>>]
    /\ calls = 0
    /\ stream = NoStream
    /\ \E record \in AllRecords : eval = [NoEval EXCEPT !.state = "record", !.record = record]

\* let row: Row = (&record).into()
RecordIntoRow ==
    /\ eval.state = "record"
    /\ eval' = [eval EXCEPT !.state = "row", !.row = Row_from_record(eval.record)]
    /\ UNCHANGED <<kv, pc, op, tx, last, insLog, calls, stream>>

\* let record: Record = row.into()
RowIntoRecord ==
    /\ eval.state = "row"
    /\ eval' = [eval EXCEPT !.state = "back", !.back = Record_from_row(eval.row)]
    /\ UNCHANGED <<kv, pc, op, tx, last, insLog, calls, stream>>

NextConvert == RecordIntoRow \/ RowIntoRecord

SpecConvert == InitConvert /\ [][NextConvert]_vars

\* The sub-record of a row column that holds the value of a variant.
SubRecordOf(variant) ==
    CASE variant = "String" -> "column_string"
      [] variant = "Int" -> "column_int"
      [] variant = "Float" -> "column_float"
      [] variant = "Bool" -> "column_bool"
      [] variant = "Bytes" -> "column_bytes"

(***************************************************************************)
(* C16  Converting a record to a row and back gives the same record, for   *)
(* every record over the five typed variants and Null: a typed column      *)
(* becomes Some(row column) with exactly the matching sub-record set, to   *)
(* the value of the column; a Null becomes None and comes back as Null;    *)
(* length and order are kept; and the conversion never reaches the         *)
(* unreachable Null branch of the column conversion.                       *)
(***************************************************************************)
C16_RecordRowRoundTrip ==
    /\ eval.state \in {"row", "back"} =>
          /\ Len(eval.row) = Len(eval.record)
          /\ \A i \in 1..Len(eval.record) :
                IF eval.record[i] = ColNull
                THEN eval.row[i] = None
                ELSE /\ IsSome(eval.row[i])
                     /\ eval.row[i][1] # Unreachable
                     /\ \A f \in DOMAIN eval.row[i][1] :
                           eval.row[i][1][f] =
                               IF f = SubRecordOf(Variant(eval.record[i]))
                               THEN Some(eval.record[i][2])
                               ELSE None
    /\ eval.state = "back" => eval.back = eval.record

\* A record with a Null in front of a typed column went to a row and back.
C16_Witness ==
    /\ eval.state = "back"
    /\ Len(eval.record) >= 2
    /\ eval.record[1] = ColNull
    /\ eval.record[2] # ColNull
    /\ eval.row[1] = None
    /\ eval.back = eval.record

\* The client has an insert into the table pending whose body read the table
\* metadata and allocated a row-id.
PendingInsert(q, table_name) ==
    /\ pc[q] = "commit"
    /\ op[q].kind = "insert"
    /\ op[q].name = table_name
    /\ tx[q].aux # NoAux

\* This step, an insert into the table commits.
InsertCommits(table_name) ==
    Len(insLog'[table_name]) = Len(insLog[table_name]) + 1

(***************************************************************************)
(* C17  When an insert into a table commits while other inserts into the   *)
(* same table are pending that read the table metadata before, each of     *)
(* those is marked for the conflict on the TableMeta key; a transaction so *)
(* marked never commits: its commit changes nothing and its body is run    *)
(* again, as the next attempt.  So the committed inserts of a table have   *)
(* row keys of their own, and the stored max_row_id counts them all.       *)
(***************************************************************************)
C17_ConcurrentInsertsConflict ==
    [][\A t \in AllTableNames :
          /\ InsertCommits(t) =>
                \A q \in Clients :
                    (PendingInsert(q, t) /\ pc'[q] = "commit") => tx'[q].conflicted
          /\ \A q \in Clients :
                /\ (pc[q] = "commit" /\ tx[q].conflicted /\ pc'[q] # "commit") =>
                      /\ pc'[q] = "retry"
                      /\ op'[q] = op[q]
                      /\ kv' = kv
                      /\ insLog' = insLog
                /\ (pc[q] = "retry" /\ pc'[q] = "commit") =>
                      op'[q] = [op[q] EXCEPT !.attempt = @ + 1]
          /\ \A i, j \in 1..Len(insLog'[t]) :
                i # j => RowKey(t, insLog'[t][i].row_id) # RowKey(t, insLog'[t][j].row_id)
          /\ Len(insLog'[t]) > 0 => StoredMaxRowId(kv', t) = Some(Len(insLog'[t]))]_vars

\* An insert committed while another insert into the same table, which had
\* read the same metadata and allocated the same row-id, was pending; that
\* one is marked.
C17_Witness ==
    \E q \in Clients : \E t \in AllTableNames :
        /\ PendingInsert(q, t)
        /\ tx[q].conflicted
        /\ last.op.kind = "insert"
        /\ last.op.name = t
        /\ RowKey(t, tx[q].aux[1].row_id) \in DOMAIN last.issued
        /\ RowKey(t, tx[q].aux[1].row_id) \in DOMAIN tx[q].writes

\* The indexes of the schema stored for a table, as a set; none without schema.
StoredIndexes(store, table_name) ==
    IF IsSome(StoredTable(store, table_name))
    THEN {StoredTable(store, table_name)[1].indexes[i] :
            i \in 1..Len(StoredTable(store, table_name)[1].indexes)}
    ELSE {}

(***************************************************************************)
(* C18  For any interleaving of concurrent add_index calls on an existing  *)
(* table, no append is lost: when an add_index commits, the stored schema  *)
(* keeps every index it had at that point and gains the new one, and every *)
(* other add_index on the table that read the schema before is marked for  *)
(* the conflict on the Table key, so that it cannot commit the schema it   *)
(* read; once two such calls have returned success the schema holds both   *)
(* indexes.                                                                *)
(***************************************************************************)
C18_ConcurrentAddIndexKeepsBoth ==
    [][\A t \in AllTableNames :
          (ReturnsNow /\ last'.op.kind = "add_index" /\ last'.op.name = t
              /\ IsOk(last'.result)) =>
              /\ StoredIndexes(kv, t) \subseteq StoredIndexes(kv', t)
              /\ last'.op.arg \in StoredIndexes(kv', t)
              /\ Len(StoredTable(kv', t)[1].indexes) = Len(StoredTable(kv, t)[1].indexes) + 1
              /\ \A q \in Clients :
                    (pc[q] = "commit" /\ pc'[q] = "commit" /\ op[q].kind = "add_index"
                        /\ op[q].name = t) => tx'[q].conflicted]_vars

\* Two add_index calls ran their bodies on the same schema; one committed,
\* the other was rejected, ran again and committed: the schema holds both
\* indexes, in commit order.
C18_Witness ==
    /\ last.op.kind = "add_index"
    /\ IsOk(last.result)
    /\ last.op.attempt >= 2
    /\ IsSome(StoredTable(kv, last.op.name))
    /\ LET ix == StoredTable(kv, last.op.name)[1].indexes
       IN /\ Len(ix) >= 2
          /\ ix[Len(ix)] = last.op.arg
          /\ ix[Len(ix) - 1] # last.op.arg

(***************************************************************************)
(* C19  An insert never commits on a schema older than the one stored at   *)
(* its commit point: an insert into T that commits after add_index(T, idx) *)
(* committed has written, for idx as for every index of the stored schema, *)
(* the Index entry of its record, to its row-id, in any interleaving.      *)
(***************************************************************************)
C19_InsertUsesCommittedSchema ==
    [][\A t \in AllTableNames :
          InsertCommits(t) =>
              /\ IsSome(StoredTable(kv, t))
              /\ LET table == StoredTable(kv, t)[1]
                     record == last'.op.arg
                     row_id == insLog'[t][Len(insLog'[t])].row_id
                 IN \A i \in 1..Len(table.indexes) :
                       LET columns == GatherColumns(table, record, table.indexes[i].fields)
                       IN /\ IsOk(columns)
                          /\ IndexKey(t, columns[2]) \in DOMAIN last'.issued
                          /\ kv'[IndexKey(t, columns[2])] = PackI64(row_id)]_vars

\* An insert ran its body on a schema without index, add_index committed,
\* and the insert committed at a later attempt with the entry of that index.
C19_Witness ==
    /\ last.op.kind = "insert"
    /\ IsOk(last.result)
    /\ last.op.attempt >= 2
    /\ StoredTable(kv, last.op.name) =
          Some(Table(last.op.name, FieldsAB, <<"b">>, <<IndexBA>>))
    /\ IndexKey(last.op.name, <<last.op.arg[2], last.op.arg[1]>>) \in DOMAIN last.issued

InsertRetriesNow(p) ==
    /\ pc[p] = "retry"
    /\ pc'[p] # "retry"
    /\ op[p].kind = "insert"
    /\ TableMetaKey(op[p].name) \in insert_body(kv, op[p].name, op[p].arg).trx.reads

(***************************************************************************)
(* C21 as stated: the table metadata is created lazily inside the insert   *)
(* transaction with max_row_id = 0 and committed together with the first   *)
(* row; when an insert is retried, the metadata read of the re-executed    *)
(* body finds the metadata record stored.                                  *)
(***************************************************************************)
C21_Original ==
    [][\A t \in AllTableNames :
          /\ (InsertCommits(t) /\ TableMetaKey(t) \notin DOMAIN kv) =>
                /\ insLog'[t][Len(insLog'[t])].row_id = 0
                /\ RowKey(t, 0) \in DOMAIN kv'
          /\ \A p \in Clients :
                (InsertRetriesNow(p) /\ op[p].name = t) => TableMetaKey(t) \in DOMAIN kv]_vars

(***************************************************************************)
(* C21 as amended: the table metadata is created lazily inside the insert  *)
(* transaction with max_row_id = 0 and is committed only together with the *)
(* first row (row-id 0, max_row_id 1 after the commit); the metadata write *)
(* of an aborted attempt is not stored, so when an insert is retried the   *)
(* metadata read of the re-executed body finds the record stored exactly   *)
(* when an insert into the table has committed by then, and otherwise      *)
(* creates it again with max_row_id = 0.                                   *)
(***************************************************************************)
C21_LazyMetadata ==
    [][\A t \in AllTableNames :
          /\ (InsertCommits(t) /\ TableMetaKey(t) \notin DOMAIN kv) =>
                /\ insLog'[t][Len(insLog'[t])].row_id = 0
                /\ RowKey(t, 0) \in DOMAIN kv'
                /\ RowKey(t, 0) \in DOMAIN last'.issued
                /\ StoredMaxRowId(kv', t) = Some(1)
          /\ TableMetaKey(t) \in DOMAIN kv' => RowKey(t, 0) \in DOMAIN kv'
          /\ \A p \in Clients :
                (InsertRetriesNow(p) /\ op[p].name = t) =>
                    LET out == insert_body(kv, t, op[p].arg)
                    IN /\ TableMetaKey(t) \in DOMAIN kv <=> Len(insLog[t]) > 0
                       /\ (Len(insLog[t]) = 0 /\ out.aux # NoAux) =>
                             /\ out.aux[1].row_id = 0
                             /\ TableMetaKey(t) \in DOMAIN out.trx.writes]_vars

\* The first insert into a table committed at its second attempt or later,
\* with row-id 0: its earlier attempt was rejected before any insert had
\* committed, and the metadata it had created was not stored.
C21_Witness ==
    \E t \in AllTableNames :
        /\ Len(insLog[t]) = 1
        /\ insLog[t][1].attempt >= 2
        /\ insLog[t][1].row_id = 0
        /\ StoredMaxRowId(kv, t) = Some(1)

(***************************************************************************)
(* Concurrent inserts of valid records into one existing table, under fair *)
(* scheduling: every pending commit is eventually decided and every        *)
(* rejected attempt is eventually run again by the retry driver.           *)
(***************************************************************************)

\* The table the inserts go to, with two secondary indexes over the same
\* field, and the records inserted: the body of insert accepts each of them
\* for this schema.
IndexB2 == Index("ib2", <<"b">>)
LiveTable == Table("A", FieldsAB, <<"a">>, <<IndexB, IndexB2>>)
LiveRecords ==
    {<<ColInt(0), ColString("x")>>, <<ColInt(1), ColString("x")>>,
     <<ColInt(1), ColString("y")>>}

\* The retry driver leaves its wait after a rejected commit and runs the body
\* of p again: the step of Retry(p), told by the position of p alone.  Under
\* NextLive a step changes pc[p] from "retry" only by Retry(p), and Retry(p)
\* is enabled exactly when pc[p] = "retry", so weak fairness of this step is
\* weak fairness of Retry(p).
Reruns(p) ==
    /\ pc[p] = "retry"
    /\ pc' \in {[pc EXCEPT ![p] = s] : s \in {"commit", "idle"}}

InitLive ==
    /\ kv = create_table_body(NoWrites, LiveTable).trx.writes
    /\ pc = [p \in Clients |-> "idle"]
    /\ op = [p \in Clients |-> NoOp]
    /\ tx = [p \in Clients |-> IdleTx]
    /\ last = [n |-> 0, op |-> NoOp, result |-> <<"None">>,
               issued |-> NoWrites]
    /\ insLog = [t \in AllTableNames |-> <<>>]
    /\ calls = 0
    /\ stream = NoStream
    /\ eval = NoEval

NextLive ==
    \E p \in Clients :
        \/ \E r \in LiveRecords : insert(p, LiveTable.name, r)
        \/ Retry(p)
        \/ Commit(p)

SpecLive ==
    /\ InitLive
    /\ [][NextLive]_vars
    /\ \A p \in Clients : WF_vars(Commit(p)) /\ WF_pc(Reruns(p))

\* The calls that have entered insert and not yet returned.
PendingCalls == {p \in Clients : pc[p] # "idle"}

(***************************************************************************)
(* C22: of a finite set of concurrent inserts of valid records into one    *)
(* existing table, under fair scheduling, every insert eventually commits  *)
(* and returns success.  No insert returns an error or is dropped (every   *)
(* call is pending or has committed exactly one row), an attempt is        *)
(* rejected only when another insert has committed the row-id it had       *)
(* allocated, and every pending call eventually returns.                   *)
(***************************************************************************)
C22_EveryInsertCommits ==
    /\ [](\A t \in TableNames :
            /\ Len(insLog[t]) + Cardinality(PendingCalls) = calls
            /\ last.n > 0 => last.result = Ok(<<>>)
            /\ \A p \in Clients :
                  (pc[p] = "commit" /\ tx[p].conflicted) =>
                      tx[p].aux[1].row_id < Len(insLog[t]))
    /\ \A p \in Clients : (pc[p] # "idle") ~> (pc[p] = "idle")
    /\ <>[](PendingCalls = {})

\* All the calls allowed were made and have returned, each with its own row,
\* and one of them committed only at its second attempt or later.
C22_Witness ==
    \E t \in TableNames :
        /\ calls = MaxCalls
        /\ PendingCalls = {}
        /\ Len(insLog[t]) = MaxCalls
        /\ \E i \in 1..Len(insLog[t]) : insLog[t][i].attempt >= 2

\* The first position, in field order, at which the record mismatches the
\* schema.
FirstMismatch(table, record) ==
    CHOOSE i \in 1..Min(Len(table.fields), Len(record)) :
        /\ Variant(record[i]) # table.fields[i].type
        /\ \A j \in 1..(i - 1) : Variant(record[j]) = table.fields[j].type

\* This step, an insert into the table returns MismatchedColumnType.
InsertMismatches(table_name) ==
    /\ InsertEnds(table_name)
    /\ IsErr(last'.result)
    /\ Cause(last'.result)[1] = "MismatchedColumnType"

(***************************************************************************)
(* C23  A Null column does not take part in type validation: whatever the  *)
(* type of the field at its position, no insert fails with                 *)
(* MismatchedColumnType because of a Null column, that is, with Null as    *)
(* the column found.                                                       *)
(***************************************************************************)
C23_NullNotValidated ==
    [][\A t \in AllTableNames :
          InsertMismatches(t) => Cause(last'.result)[3] # <<"Null">>]_vars

(***************************************************************************)
(* C24  The MismatchedColumnType error of insert reports the first         *)
(* mismatching position in field order; it carries as expected the name of *)
(* the type of the field there and as found the name of the variant of the *)
(* column there, not the value of the column.                              *)
(***************************************************************************)
C24_MismatchNamesVariant ==
    [][\A t \in AllTableNames :
          (InsertMismatches(t) /\ IsSome(StoredTable(kv, t))) =>
              LET table == StoredTable(kv, t)[1]
                  record == last'.op.arg
                  i == FirstMismatch(table, record)
              IN /\ Cause(last'.result)[2] = <<table.fields[i].type>>
                 /\ Cause(last'.result)[3] = <<Variant(record[i])>>]_vars

\* max_row_id of a table in a store, an absent TableMeta key counting as 0.
MaxRowIdOf(store, table_name) ==
    IF IsSome(StoredMaxRowId(store, table_name))
    THEN StoredMaxRowId(store, table_name)[1]
    ELSE 0

\* The Row keys of a table in a store.
RowKeysOf(store, table_name) ==
    {k \in KeysOf(store, table_name) : k[1] = DataPrefix_Row}

\* The Row keys of a table are those of the row-ids below its max_row_id.
RowsBelowMax(store, table_name) ==
    RowKeysOf(store, table_name) =
        {RowKey(table_name, k) : k \in 0..(MaxRowIdOf(store, table_name) - 1)}

(***************************************************************************)
(* C25  In every committed state and for every table, a Row payload is     *)
(* stored under row-id k if and only if 0 <= k < max_row_id of the table,  *)
(* an absent TableMeta counting as 0; max_row_id never decreases, and      *)
(* after n committed inserts into the table it is n.                       *)
(***************************************************************************)
C25_RowsBelowMaxRowId ==
    [][\A t \in AllTableNames :
          /\ RowsBelowMax(kv, t)
          /\ RowsBelowMax(kv', t)
          /\ MaxRowIdOf(kv', t) >= MaxRowIdOf(kv, t)
          /\ MaxRowIdOf(kv, t) = Len(insLog[t])
          /\ MaxRowIdOf(kv', t) = Len(insLog'[t])]_vars

\* Two concurrent inserts into a table committed, one of them at its second
\* attempt: max_row_id is 2 and rows 0 and 1 exist.
C25_Witness ==
    \E t \in AllTableNames :
        /\ Len(insLog[t]) = 2
        /\ MaxRowIdOf(kv, t) = 2
        /\ RowKeysOf(kv, t) = {RowKey(t, 0), RowKey(t, 1)}
        /\ \E i \in 1..2 : insLog[t][i].attempt >= 2

\* The PrimaryKey and Index keys of a table in a store.
EntryKeysOf(store, table_name) ==
    {k \in KeysOf(store, table_name) : k[1] \in {DataPrefix_PrimaryKey, DataPrefix_Index}}

(***************************************************************************)
(* C26  After any sequence of create_table, add_index and insert calls,    *)
(* failed and retried ones included, every PrimaryKey entry and every      *)
(* Index entry of a table holds a row-id under which a Row payload of the  *)
(* same table is stored, so get_record_by_pk finds no primary-key entry    *)
(* that points to a missing row.                                           *)
(***************************************************************************)
C26_EntriesPointToRows ==
    \A t \in AllTableNames :
        /\ \A k \in EntryKeysOf(kv, t) : RowKey(t, UnpackI64(kv[k])) \in DOMAIN kv
        /\ \A pk \in PkTuples : ~Dangling(kv, t, pk)

\* A PrimaryKey entry and an Index entry are stored, and the last call was an
\* insert that failed after it had issued its PrimaryKey write.
C26_Witness ==
    \E t \in AllTableNames :
        /\ \E k \in EntryKeysOf(kv, t) : k[1] = DataPrefix_PrimaryKey
        /\ \E k \in EntryKeysOf(kv, t) : k[1] = DataPrefix_Index
        /\ last.op.kind = "insert"
        /\ last.op.name = t
        /\ IsErr(last.result)
        /\ \E k \in DOMAIN last.issued : k[1] = DataPrefix_PrimaryKey

\* The columns of a record at the positions of the named fields, in the
\* order of the names.
ColumnsAt(table, record, fields) ==
    [j \in 1..Len(fields) |->
        record[CHOOSE i \in 1..Len(table.fields) : table.fields[i].name = fields[j]]]

\* The Index keys among the writes of a transaction.
IndexKeysIn(writes) == {k \in DOMAIN writes : k[1] = DataPrefix_Index}

(***************************************************************************)
(* C27  Every successful insert into a table whose stored schema has       *)
(* secondary indexes writes, for each index of the schema, one Index entry *)
(* keyed by the columns of the record taken in the order of index.fields,  *)
(* and no other Index entry; the value of each is the row-id allocated to  *)
(* the insert, which is also the value of its PrimaryKey entry and the     *)
(* row-id of its Row key.                                                  *)
(***************************************************************************)
C27_IndexEntriesWritten ==
    [][\A t \in AllTableNames :
          InsertCommits(t) =>
              LET table == StoredTable(kv, t)[1]
                  e == insLog'[t][Len(insLog'[t])]
                  keys == {IndexKey(t, ColumnsAt(table, e.record, table.indexes[i].fields)) :
                              i \in 1..Len(table.indexes)}
              IN /\ IndexKeysIn(last'.issued) = keys
                 /\ \A k \in keys : /\ last'.issued[k] = PackI64(e.row_id)
                                    /\ kv'[k] = PackI64(e.row_id)
                 /\ kv'[PrimaryKeyKey(t, ColumnsAt(table, e.record, table.primary_key))]
                        = PackI64(e.row_id)
                 /\ RowKey(t, e.row_id) \in DOMAIN last'.issued]_vars

\* An insert committed into a table with two indexes, one of them over the
\* fields (b, a) of a schema with fields (a, b): its entry is keyed by the
\* record's columns in the order b, a.
C27_Witness ==
    \E t \in AllTableNames :
        /\ last.op.kind = "insert"
        /\ last.op.name = t
        /\ last.result = Ok(<<>>)
        /\ StoredIndexes(kv, t) = {IndexB, IndexBA}
        /\ Cardinality(IndexKeysIn(last.issued)) = 2
        /\ IndexKey(t, <<last.op.arg[2], last.op.arg[1]>>) \in DOMAIN last.issued

\* The Index keys of a table in a store.
IndexKeysOf(store, table_name) ==
    {k \in KeysOf(store, table_name) : k[1] = DataPrefix_Index}

\* The i-th committed insert into the table wrote the Index key k: k is the
\* key of the table name and of the record's columns under the fields of
\* some index of the schema.
WroteIndexKey(table, i, k) ==
    \E x \in 1..Len(table.indexes) :
        k = IndexKey(table.name,
                     ColumnsAt(table, insLog[table.name][i].record, table.indexes[x].fields))

(***************************************************************************)
(* C28  The key of a secondary-index entry is made of the table name and   *)
(* the indexed column values only, without the index name and without the  *)
(* row-id.  So the Index region holds one row-id per (table, column        *)
(* tuple): the entries of two indexes with equal tuples and the entries of *)
(* two rows with equal indexed values are one key, and its value is the    *)
(* row-id of the most recently committed insert that wrote it.             *)
(***************************************************************************)
C28_OneRowIdPerTuple ==
    \A t \in TableNames :
        LET table == StoredTable(kv, t)[1]
            n == Len(insLog[t])
        IN /\ IndexKeysOf(kv, t) = {IndexKey(t, ColumnsAt(table, insLog[t][i].record,
                                                          table.indexes[x].fields)) :
                                       i \in 1..n, x \in 1..Len(table.indexes)}
           /\ \A k \in IndexKeysOf(kv, t) :
                 LET latest == CHOOSE i \in 1..n :
                                  /\ WroteIndexKey(table, i, k)
                                  /\ \A j \in (i + 1)..n : ~WroteIndexKey(table, j, k)
                 IN kv[k] = PackI64(insLog[t][latest].row_id)

\* Three rows were inserted into a table with two indexes over the same
\* field; the first two have the same indexed value.  The six entries are
\* two keys, and the key the first two rows share holds the second row-id.
C28_Witness ==
    \E t \in TableNames :
        /\ Len(insLog[t]) = 3
        /\ Len(StoredTable(kv, t)[1].indexes) = 2
        /\ insLog[t][1].record[2] = insLog[t][2].record[2]
        /\ insLog[t][3].record[2] # insLog[t][2].record[2]
        /\ Cardinality(IndexKeysOf(kv, t)) = 2
        /\ kv[IndexKey(t, <<insLog[t][1].record[2]>>)] = PackI64(insLog[t][2].row_id)

\* This step, an add_index on the table returns success.
AddIndexEnds(table_name) ==
    /\ ReturnsNow
    /\ last'.op.kind = "add_index"
    /\ last'.op.name = table_name
    /\ IsOk(last'.result)

\* The record has a column for each of the named fields of the table.
CoversFields(table, record, fields) ==
    \A j \in 1..Len(fields) :
        \E i \in 1..Min(Len(table.fields), Len(record)) : table.fields[i].name = fields[j]

FieldNames(table) == {table.fields[i].name : i \in 1..Len(table.fields)}

\* The primary key and every index of the schema name fields of the schema.
WellFormed(table) ==
    /\ \A i \in 1..Len(table.primary_key) : table.primary_key[i] \in FieldNames(table)
    /\ \A x \in 1..Len(table.indexes) :
          \A j \in 1..Len(table.indexes[x].fields) :
              table.indexes[x].fields[j] \in FieldNames(table)

(***************************************************************************)
(* C30  add_index preserves the well-formedness of the stored schema: when *)
(* the schema stored for a table names only fields of the schema in its    *)
(* primary key and indexes, so does the schema stored after a successful   *)
(* add_index; no index on a field the schema lacks is stored.              *)
(***************************************************************************)
C30_AddIndexKeepsWellFormed ==
    [][\A t \in AllTableNames :
          (AddIndexEnds(t) /\ IsSome(StoredTable(kv, t))
                /\ WellFormed(StoredTable(kv, t)[1])) =>
              WellFormed(StoredTable(kv', t)[1])]_vars

\* This step, a create_table of the name returns success.
CreateTableEnds(table_name) ==
    /\ ReturnsNow
    /\ last'.op.kind = "create_table"
    /\ last'.op.name = table_name
    /\ IsOk(last'.result)

(***************************************************************************)
(* C31  create_table writes only the Table schema key of the given name:   *)
(* it neither creates nor resets TableMeta and touches no Row, PrimaryKey  *)
(* or Index key.  So re-creating a table keeps its max_row_id: later       *)
(* inserts continue from the counter, no row-id of the table name is used  *)
(* twice, and get_record_by_pk returns for every primary key what it       *)
(* returned before the create_table.                                       *)
(***************************************************************************)
C31_CreateTableKeepsRows ==
    [][\A t \in AllTableNames :
          /\ CreateTableEnds(t) =>
                /\ DOMAIN last'.issued = {TableKey(t)}
                /\ DOMAIN kv' = DOMAIN kv \cup {TableKey(t)}
                /\ \A k \in DOMAIN kv : k # TableKey(t) => kv'[k] = kv[k]
                /\ StoredMaxRowId(kv', t) = StoredMaxRowId(kv, t)
                /\ \A pk \in PkTuples : Lookup(kv', t, pk) = Lookup(kv, t, pk)
          /\ InsertCommits(t) =>
                insLog'[t][Len(insLog'[t])].row_id = Len(insLog[t])
          /\ \A i, j \in 1..Len(insLog'[t]) :
                i # j => insLog'[t][i].row_id # insLog'[t][j].row_id]_vars

\* A row was inserted under a schema with an index, the table was created
\* again without the second field, and a record the first schema would have
\* refused was inserted: it has row-id 1 and both rows are stored.
C31_Witness ==
    \E t \in AllTableNames :
        /\ Len(insLog[t]) = 2
        /\ IndexKeysOf(kv, t) # {}
        /\ StoredTable(kv, t)[1].fields = FieldsA
        /\ insLog[t][1].row_id = 0
        /\ insLog[t][2].record = <<ColInt(0)>>
        /\ insLog[t][2].row_id = 1
        /\ RowKeysOf(kv, t) = {RowKey(t, 0), RowKey(t, 1)}
        /\ Lookup(kv, t, <<ColInt(0)>>) = Some(<<ColInt(0)>>)

(***************************************************************************)
(* Records longer and shorter than the field list: one table name, created *)
(* with one or two fields and created again during the run.                *)
(***************************************************************************)
LenTables ==
    {Table("A", FieldsA, <<"a">>, <<>>),
     Table("A", FieldsAB, <<"a">>, <<>>),
     Table("A", FieldsAB, <<"a">>, <<IndexB>>)}

\* The records inserted: one column, two columns with a Null or a string
\* second, and one that mismatches the first field; and the keys looked up.
LenRecords ==
    {<<ColInt(0)>>, <<ColInt(1), ColNull>>, <<ColInt(1), ColString("x")>>,
     <<ColString("x")>>}
LenPks == {<<ColInt(0)>>, <<ColInt(1)>>}

InitLen ==
    /\ kv \in {create_table_body(NoWrites, table).trx.writes : table \in LenTables}
    /\ pc = [p \in Clients |-> "idle"]
    /\ op = [p \in Clients |-> NoOp]
    /\ tx = [p \in Clients |-> IdleTx]
    /\ last = [n |-> 0, op |-> NoOp, result |-> <<"None">>,
               issued |-> NoWrites]
    /\ insLog = [t \in AllTableNames |-> <<>>]
    /\ calls = 0
    /\ stream = NoStream
    /\ eval = NoEval

NextLen ==
    \E p \in Clients :
        \/ \E table \in LenTables : create_table(p, table)
        \/ \E n \in TableNames, r \in LenRecords : insert(p, n, r)
        \/ \E n \in TableNames, k \in LenPks : get_record_by_pk(p, n, k)
        \/ Retry(p)
        \/ Commit(p)

SpecLen == InitLen /\ [][NextLen]_vars

\* The record fits the schema where insert looks: the positions it shares
\* with the fields match in type, and it has a column for every primary-key
\* field and every indexed field.
FitsSchema(table, record) ==
    /\ ~HasMismatch(table, record)
    /\ ~LacksKeyColumn(table, record)

(***************************************************************************)
(* C32  Type validation covers the first min(number of fields, number of   *)
(* columns) positions only: an insert whose record is longer or shorter    *)
(* than the field list succeeds whenever the common positions match in     *)
(* type and every primary-key and indexed position is present; the payload *)
(* stored holds exactly the columns of the record, extras included and     *)
(* missing ones not padded, and get_record_by_pk returns the record as it  *)
(* was given.                                                              *)
(***************************************************************************)
C32_LengthNotValidated ==
    [][\A t \in AllTableNames :
          LET schema == StoredTable(kv, t)
              record == last'.op.arg
          IN /\ (InsertEnds(t) /\ IsSome(schema) /\ FitsSchema(schema[1], record)) =>
                    LET e == insLog'[t][Len(insLog'[t])]
                        payload == kv'[RowKey(t, e.row_id)]
                    IN /\ last'.result = Ok(<<>>)
                       /\ InsertCommits(t)
                       /\ e.record = record
                       /\ Len(Row_from_bytes(payload)) = Len(record)
                       /\ Record_from_row(Row_from_bytes(payload)) = record
                       /\ Lookup(kv', t, ColumnsAt(schema[1], record, schema[1].primary_key))
                              = Some(record)
             /\ (ReturnsNow /\ last'.op.kind = "get_record_by_pk" /\ last'.op.name = t) =>
                    \A i \in 1..Len(insLog[t]) :
                        (LatestOnPk(t, i) /\ insLog[t][i].pk = last'.op.arg) =>
                            last'.result = Ok(Some(insLog[t][i].record))]_vars

\* A record of two columns, the second Null, was inserted under the schema
\* of one field; the table was created again with two fields, and the last
\* call inserted a record of one column under it.  Both are returned as
\* given.
C32_Witness ==
    \E t \in AllTableNames :
        /\ Len(insLog[t]) = 2
        /\ Len(insLog[t][1].record) = 2
        /\ insLog[t][1].record[2] = ColNull
        /\ insLog[t][1].pk # insLog[t][2].pk
        /\ last.op.kind = "insert"
        /\ last.result = Ok(<<>>)
        /\ last.op.arg = insLog[t][2].record
        /\ Len(last.op.arg) = 1
        /\ StoredTable(kv, t)[1].fields = FieldsAB
        /\ Lookup(kv, t, insLog[t][1].pk) = Some(insLog[t][1].record)
        /\ Lookup(kv, t, insLog[t][2].pk) = Some(insLog[t][2].record)

(***************************************************************************)
(* full_scan with writers between its pages: Storage::set and              *)
(* Storage::delete, each one blind write in a transaction of its own, run  *)
(* while the stream is open.  The consumer keeps polling the stream, so    *)
(* the loop of full_scan takes its next turn (weak fairness).              *)
(***************************************************************************)
\* The stores scanned: up to MaxFill keys <<1, i>>, with or without the
\* keys <<2>> and <<2, 0>>.
WriterStores ==
    {[k \in FillKeys(n) \cup v |-> ValueOf(k)] :
        n \in {0, MaxFill - 1, MaxFill}, v \in SUBSET {<<2>>, <<2, 0>>}}

\* The keys written between pages: below, among and above the keys scanned.
WriterKeys == {<<1, 1>>, <<1, 1, 0>>, <<2>>, <<2, 0>>}

InitWriters ==
    /\ kv \in WriterStores
    /\ pc = [p \in Clients |-> "idle"]
    /\ op = [p \in Clients |-> NoOp]
    /\ tx = [p \in Clients |-> IdleTx]
    /\ last = [n |-> 0, op |-> NoOp, result |-> <<"None">>,
               issued |-> NoWrites]
    /\ insLog = [t \in AllTableNames |-> <<>>]
    /\ calls = 0
    /\ stream = NoStream
    /\ eval = NoEval

\* Storage::set by another caller while the stream is open.
Storage_set(key, value) ==
    /\ stream.state = "streaming"
    /\ calls < MaxCalls
    /\ calls' = calls + 1
    /\ kv' = [k \in DOMAIN kv \cup {key} |-> IF k = key THEN value ELSE kv[k]]
    /\ UNCHANGED <<pc, op, tx, last, insLog, stream, eval>>

\* Storage::delete by another caller while the stream is open.
Storage_delete_key(key) ==
    /\ stream.state = "streaming"
    /\ calls < MaxCalls
    /\ calls' = calls + 1
    /\ kv' = [k \in DOMAIN kv \ {key} |-> kv[k]]
    /\ UNCHANGED <<pc, op, tx, last, insLog, stream, eval>>

NextWriters ==
    \/ full_scan(<<>>, <<255>>)
    \/ full_scan_loop
    \/ \E key \in WriterKeys : Storage_set(key, <<"new">>)
    \/ \E key \in WriterKeys : Storage_delete_key(key)

\* The consumer polls the open stream and the loop of full_scan takes its
\* turn: the step of full_scan_loop.  The first disjunct only tells that a
\* turn is possible whenever the stream is open, without a range read; under
\* NextWriters a step that changes an open stream is a step of
\* full_scan_loop, which is enabled exactly when the stream is open, so weak
\* fairness of this step is weak fairness of full_scan_loop.
Polled ==
    /\ stream.state = "streaming"
    /\ \/ /\ stream' = [stream EXCEPT !.state = "done"]
          /\ UNCHANGED <<kv, pc, op, tx, last, insLog, calls, eval>>
       \/ full_scan_loop

SpecWriters ==
    /\ InitWriters
    /\ [][NextWriters]_vars
    /\ WF_vars(Polled)

\* The keys the stream has yielded, in the order yielded.
Yielded == [i \in 1..Len(stream.out) |-> stream.out[i][1]]

(***************************************************************************)
(* C33  full_scan makes forward progress and terminates.  The start of     *)
(* every page after the first is strictly above every key yielded so far,  *)
(* so the keys yielded are strictly ascending and none is yielded twice,   *)
(* also when writers run between pages; the stream ends at the first scan  *)
(* that returns an empty page and at no other, and once the writers have   *)
(* stopped it does end.                                                    *)
(***************************************************************************)
C33_FullScanProgress ==
    /\ [](/\ \A i \in 1..(Len(Yielded) - 1) : KeyLess(Yielded[i], Yielded[i + 1])
          /\ stream.out # <<>> => \A i \in 1..Len(Yielded) : KeyLess(Yielded[i], stream.start))
    /\ [][stream.state = "streaming" /\ stream' # stream =>
             /\ stream'.state = "done" <=> scan_body(kv, stream.start, stream.end) = <<>>
             /\ stream'.state = "done" => stream'.out = stream.out
             /\ stream'.state # "done" => KeyLess(stream.start, stream'.start)]_vars
    /\ [][stream.state = "done" => stream' = stream]_vars
    /\ (stream.state = "streaming") ~> (stream.state = "done")

\* The stream ended after more than one page, a writer ran while it was
\* open, and a key of the range that is stored was not yielded: it was set
\* behind the start of the next page.
C33_Witness ==
    /\ stream.state = "done"
    /\ Len(stream.out) > MAX_SCAN_SIZE
    /\ calls >= 1
    /\ \E k \in RangeKeys(kv, stream.from, stream.end) :
          /\ k \notin {Yielded[i] : i \in 1..Len(Yielded)}
          /\ KeyLess(k, Yielded[Len(Yielded)])

(***************************************************************************)
(* Engine errors raised by a KV read inside a body.  The engine may fail   *)
(* any read with a retryable error; what the driver does with it depends   *)
(* on the shape in which the closure hands it over.                        *)
(***************************************************************************)
\* The retryable engine errors a read may raise.
EngineErrors == {<<"fdb", "transaction_too_old">>, <<"fdb", "future_version">>}

\* #[from] foundationdb::FdbError of SqlLayerError: what `?` makes of an
\* engine error in a helper that returns crate::errors::Result.
SqlLayerError_FdbError(e) == <<"FdbError", e>>

\* From<FdbError> for FdbBindingError: what `?` makes of an engine error
\* raised directly in a closure.
NonRetryableFdbError(e) == <<"NonRetryableFdbError", e>>

\* The engine error the retry driver finds in the error of a closure, if
\* any: the engine error itself, or one boxed as such in the custom-error
\* variant.  A boxed SqlLayerError is not an engine error, whatever it wraps.
get_fdb_error(err) ==
    IF err[1] = "NonRetryableFdbError" THEN Some(err[2])
    ELSE IF err[1] = "CustomError" /\ err[2][1] = "fdb" THEN Some(err[2])
    ELSE IF err[1] = "CustomError" /\ err[2][1] = "NonRetryableFdbError" THEN Some(err[2][2])
    ELSE None

\* The body of insert when the engine fails its schema read
\* (get_table_internal) or its metadata read (get_table_meta) with e: the
\* helper returns SqlLayerError::FdbError(e) and `?` in the closure boxes it.
insert_body_fault(store, table_name, record, site, e) ==
    [trx |-> IF site = "schema" THEN NewTrx
             ELSE get_table_internal(NewTrx, store, table_name).trx,
     res |-> Raise(SqlLayerError_FdbError(e)), aux |-> NoAux]

\* The body of add_index when the engine fails its schema read with e.
add_index_body_fault(store, table_name, index, e) ==
    [trx |-> NewTrx, res |-> Raise(SqlLayerError_FdbError(e)), aux |-> NoAux]

\* The body of get_record_by_pk when the engine fails its first read with
\* e: the read is made in the closure itself.
get_record_by_pk_body_fault(store, table_name, pk, e) ==
    [trx |-> NewTrx, res |-> Err(NonRetryableFdbError(e)), aux |-> NoAux]

\* Database::run after an execution of the body of o that ended with an
\* error: an engine error found in it is handed to on_error and the body is
\* run again; any other error is returned to the caller.
Faulted(p, o, out) ==
    /\ IsErr(out.res)
    /\ IF IsSome(get_fdb_error(out.res[2]))
       THEN /\ pc' = [pc EXCEPT ![p] = "retry"]
            /\ op' = [op EXCEPT ![p] = o]
            /\ tx' = [tx EXCEPT ![p] = IdleTx]
            /\ UNCHANGED last
       ELSE /\ pc' = [pc EXCEPT ![p] = "idle"]
            /\ op' = [op EXCEPT ![p] = NoOp]
            /\ tx' = [tx EXCEPT ![p] = IdleTx]
            /\ last' = Finished(o, Err(Fdb(out.res[2])), out.trx.writes)
    /\ UNCHANGED <<kv, insLog, stream, eval>>

\* insert with a failed read; the metadata read is reached only by a body
\* that passed validation and primary-key extraction.
insert_fault(p, table_name, record, site, e) ==
    /\ Invoke(p)
    /\ site = "meta" =>
          TableMetaKey(table_name) \in insert_body(kv, table_name, record).trx.reads
    /\ Faulted(p, Call("insert", table_name, record),
               insert_body_fault(kv, table_name, record, site, e))

add_index_fault(p, table_name, index, e) ==
    /\ Invoke(p)
    /\ Faulted(p, Call("add_index", table_name, index),
               add_index_body_fault(kv, table_name, index, e))

get_record_by_pk_fault(p, table_name, pk, e) ==
    /\ Invoke(p)
    /\ Faulted(p, Call("get_record_by_pk", table_name, pk),
               get_record_by_pk_body_fault(kv, table_name, pk, e))

InitFault == InitFacade

NextFault ==
    \E p \in Clients :
        \/ \E n \in TableNames, r \in ShortRecords : insert(p, n, r)
        \/ \E n \in TableNames : add_index(p, n, IndexB)
        \/ \E n \in TableNames, r \in ShortRecords, site \in {"schema", "meta"},
              e \in EngineErrors : insert_fault(p, n, r, site, e)
        \/ \E n \in TableNames, e \in EngineErrors : add_index_fault(p, n, IndexB, e)
        \/ \E n \in TableNames, k \in PkTuples, e \in EngineErrors :
              get_record_by_pk_fault(p, n, k, e)
        \/ Retry(p)
        \/ Commit(p)

SpecFault == InitFault /\ [][NextFault]_vars

(***************************************************************************)
(* C34  Only domain errors travel on the custom-error channel of the retry *)
(* driver: a retryable engine error raised by the schema read or the       *)
(* metadata read inside the body of insert or add_index reaches the driver *)
(* as an engine error and the body is run again, so no insert or add_index *)
(* returns to its caller an error that carries an engine error.            *)
(***************************************************************************)
C34_EngineErrorsRetried ==
    [][(ReturnsNow /\ last'.op.kind \in {"insert", "add_index"} /\ IsErr(last'.result)) =>
          /\ last'.result[2][1] = "Fdb"
          /\ last'.result[2][2][1] = "CustomError" => Cause(last'.result)[1] \in DomainErrors
          /\ ~IsSome(get_fdb_error(last'.result[2][2]))
          /\ Cause(last'.result)[1] # "FdbError"]_vars
====
